---- MODULE Spec2Model ----
(***************************************************************************)
(* Navigation and selection state machines of pyiron_gui.                  *)
(*                                                                         *)
(*   HasGroupsBrowser      history-tracked navigation engine (History      *)
(*                         Ledger + Navigation Engine of spec.md 4.1/4.2;  *)
(*                         its implementation is not among the source      *)
(*                         files, only its tests and callers are)          *)
(*   ProjectBrowser        src/pyiron_gui/project/project_browser.py       *)
(*   DataContainerBrowser  src/pyiron_gui/datacontainer/browser.py         *)
(***************************************************************************)
EXTENDS Integers, Sequences, FiniteSets, TLC

VARIABLES
    \* ---- HasGroupsBrowser (History Ledger + Navigation Engine)
    entries,        \* History Ledger: sequence of visited positions
    cursor,         \* History Ledger: 0-based index into entries
    current,        \* NavigationState.current
    selected_leaf,  \* NavigationState.selected_leaf (None or a leaf name)
    locked,         \* NavigationState.locked
    h_op,           \* the operation called last
    h_err,          \* its outcome: "None" or the error it failed with
    h_trail,        \* positions current after each of the latest run of enter_group calls
    h_backs,        \* number of go_back calls that followed that run
    h_dropped,      \* number of entries the last operation discarded from the ledger
    h_pre,          \* <<current, selected_leaf>> before the go_back called last, else <<>>
    segments,       \* PathTrail.segments (path-tracking variant): group names entered
    \* ---- which browser class the session drives
    browser,
    \* ---- ProjectBrowser
    pb_project,       \* self._project
    pb_fix_path,      \* self._fix_path
    pb_show_files,    \* self._show_files
    pb_clickedFiles,  \* self._clickedFiles
    pb_data,          \* self._data
    pb_msg,           \* what the last event printed to self.output
    pb_op,            \* the event handled last
    pb_arg,           \* its argument (button description, path)
    pb_pre,           \* the browser's fields before the event handled last
    pb_hide_path,     \* self._hide_path
    pb_home,          \* the path attribute of the home button, set when it was built
    pb_node_as_dirs,  \* self._node_as_dirs
    pb_other,         \* the fields of the second browser of the session, if copy() made one
    \* ---- DataContainerBrowser
    dc_path,          \* self._path
    dc_current,       \* self._current_data_container (the key of the container in the root)
    dc_clicked_data,  \* self._clicked_data
    dc_data,          \* self._data
    dc_busy,          \* self._busy
    dc_msg,           \* what the last event printed to self.output
    dc_op,            \* the event handled last
    dc_arg,           \* its argument
    dc_pre,           \* the browser's fields before the event handled last
    dc_written,       \* the container: the values assigned to its keys since the session began
    dc_other,         \* the fields of the second browser of the session, if copy() made one
    \* ---- _BusyCheck (utils/busy_check.py, utils/decorators.py)
    bc_busy,          \* self._busy
    bc_widget_state,  \* self._widget_state: widget key -> the disabled flag saved for it
    bc_widgets,       \* widgets.Widget.widgets: widget key -> [button, disabled]
    bc_depth,         \* number of decorated functions whose body is running
    bc_op,            \* the call made last
    bc_eff,           \* what it did to the guard
    bc_ret,           \* what the last _busy_check call returned: "True" or "None"
    bc_pre,           \* the registry as it was before the guard was last acquired
    bc_clean,         \* busy was not set to True again since the guard was last acquired
    \* ---- the widgets of src/pyiron_gui/wrapper/wrapper.py
    widget,           \* which widget class the session drives
    np_widget,        \* the NumpyWidget: its options, plot, header and output
    mu_widget,        \* the MurnaghanWidget: option widgets, parsed options, the job's input
    at_widget,        \* the AtomsWidget: options, the NGL view and its orientation
    fd_widget,        \* the FileDataWidget: the cached data, the header, the callback
    wrapper,          \* what PyironWrapper returned last
    mp,               \* monkey_patching: the class being patched and the last call
    pl                \* _gen_pathbox_path_list: the locals of the call in progress

hvars == <<entries, cursor, current, selected_leaf, locked, h_op, h_err, h_trail, h_backs,
          h_dropped, h_pre, segments>>

pbvars == <<pb_project, pb_fix_path, pb_show_files, pb_clickedFiles, pb_data, pb_msg,
           pb_op, pb_arg, pb_pre, pb_hide_path, pb_home, pb_node_as_dirs, pb_other>>

dcvars == <<dc_path, dc_current, dc_clicked_data, dc_data, dc_busy, dc_msg, dc_op, dc_arg,
           dc_pre, dc_written, dc_other>>

bcvars == <<bc_busy, bc_widget_state, bc_widgets, bc_depth, bc_op, bc_eff, bc_ret, bc_pre,
           bc_clean>>

wvars == <<widget, np_widget, mu_widget, at_widget, fd_widget, wrapper, mp, pl>>

vars == <<hvars, browser, pbvars, dcvars, bcvars, wvars>>

\* what the operations of the history engine leave alone
HFrame == UNCHANGED <<browser, pbvars, dcvars, bcvars, wvars>>

None == "None"

\* ------------------------------------------------------------------------
\* Bounds
\* ------------------------------------------------------------------------
MaxHist == 4
MaxWidgets == 2
MaxDepth == 2
MaxRank == 4
AxisLen == 2

\* the number of keys of the container the data setter assigns to
MaxWrites == 1

\* ------------------------------------------------------------------------
\* Browsable capability: a nested container in the shape of the tests'
\* TEST_DATA_CONTAINER.  A position is a container object (Roots: two equal
\* copies, as in test_project) and a path of group names below it.
\* ------------------------------------------------------------------------
Roots == {"dc", "dc_copy"}

GroupPaths == {<<>>, <<"B">>, <<"B", "B1">>, <<"B", "B1", "B1x">>, <<"B", "B2">>, <<"E">>}

list_groups(path) ==
    CASE path = <<>> -> <<"B", "E">>
      [] path = <<"B">> -> <<"B1", "B2">>
      [] path = <<"B", "B1">> -> <<"B1x">>
      [] OTHER -> <<>>

list_nodes(path) ==
    CASE path = <<>> -> <<"A", "D">>
      [] path = <<"B">> -> <<"B3", "B4">>
      [] path = <<"B", "B1">> -> <<"a", "b">>
      [] path = <<"B", "B1", "B1x">> -> <<"x">>
      [] path = <<"B", "B2">> -> <<"h", "i">>
      [] path = <<"E">> -> <<"some_node">>
      [] OTHER -> <<>>

SeqToSet(s) == {s[i] : i \in 1..Len(s)}

Names == {"A", "D", "B", "E", "B1", "B1x", "B2", "B3", "a", "missing"}

Positions == [root : Roots, path : GroupPaths]

NotBrowsable == [root |-> "int", path |-> <<>>]

IsBrowsable(v) == v \in Positions

\* get(name): the child position for a group, a leaf value for a node,
\* NotFound otherwise.
get(pos, name) ==
    IF name \in SeqToSet(list_groups(pos.path))
    THEN [kind |-> "group", value |-> [root |-> pos.root, path |-> Append(pos.path, name)]]
    ELSE IF name \in SeqToSet(list_nodes(pos.path))
    THEN [kind |-> "leaf", value |-> [root |-> "value", path |-> Append(pos.path, name)]]
    ELSE [kind |-> "NotFound", value |-> NotBrowsable]

\* ------------------------------------------------------------------------
\* History Ledger (spec.md 4.1)
\* ------------------------------------------------------------------------
\* record(entry): drop everything after cursor, append, cursor = len-1
record_append_only(es, c, entry) == [entries |-> Append(es, entry), cursor |-> Len(es)]

record(es, c, entry) ==
    LET kept == IF c < Len(es) - 1 THEN SubSeq(es, 1, c + 1) ELSE es
    IN [entries |-> Append(kept, entry), cursor |-> Len(kept)]

\* go_back(): fails with AtStart if cursor = 0
go_back_error_unchecked(es, c) == None

go_back_error(es, c) == IF c = 0 THEN "AtStart" ELSE None

\* go_forward(): fails with AtEnd if cursor = len(entries)-1
go_forward_error(es, c) == IF c = Len(es) - 1 THEN "AtEnd" ELSE None

\* jump(index): fails with OutOfRange if index not in [0, len(entries))
jump_error(es, index) == IF index < 0 \/ index >= Len(es) THEN "OutOfRange" ELSE None

\* the referent of entries[cursor]; no referent outside the ledger
entry_at_last(es, c) == es[Len(es)]

entry_at_one_based(es, c) == IF c >= 1 /\ c <= Len(es) THEN es[c] ELSE es[1]

entry_at(es, c) == IF c >= 0 /\ c < Len(es) THEN es[c + 1] ELSE NotBrowsable

\* ------------------------------------------------------------------------
\* Navigation Engine (spec.md 4.2)
\* ------------------------------------------------------------------------
HInit ==
    /\ entries = <<[root |-> "dc", path |-> <<>>]>>
    /\ cursor = 0
    /\ current = [root |-> "dc", path |-> <<>>]
    /\ selected_leaf = None
    /\ locked = FALSE
    /\ h_op = "init"
    /\ h_err = None
    /\ h_trail = <<[root |-> "dc", path |-> <<>>]>>
    /\ h_backs = 0
    /\ h_dropped = 0
    /\ h_pre = <<>>
    /\ segments = <<>>

\* an operation that failed: nothing but the report changes
HFail(op, err) ==
    /\ h_op' = op
    /\ h_err' = err
    /\ h_dropped' = 0
    /\ h_pre' = <<>>
    /\ HFrame
    /\ UNCHANGED <<entries, cursor, current, selected_leaf, locked, h_trail, h_backs, segments>>

\* a successful change of position to new: clear the selection, record
HMoveTo(op, new) ==
    LET r == record(entries, cursor, new)
    IN /\ current' = new
       /\ selected_leaf' = None
       /\ entries' = r.entries
       /\ cursor' = r.cursor
       /\ h_op' = op
       /\ h_err' = None
       /\ h_dropped' = Len(entries) - (Len(r.entries) - 1)
       /\ h_pre' = <<>>
       /\ HFrame
       /\ UNCHANGED locked

\* PathTrail: cut to cursor length where the ledger truncates, then append
\* (a trail that is only ever appended to)
trail_record_append_only(segs, c, name) == Append(segs, name)

trail_record(segs, c, name) ==
    Append(IF c < Len(segs) THEN SubSeq(segs, 1, c) ELSE segs, name)

\* the breadcrumb of the path-tracking variant: the root marker, then the
\* segments up to the cursor
path_list ==
    <<"/">> \o (IF cursor < Len(segments) THEN SubSeq(segments, 1, cursor) ELSE segments)

\* enter_group(name)
enter_group(name) ==
    LET r == get(current, name)
    IN IF locked THEN HFail("enter_group", "LockedNavigation")
       ELSE IF r.kind = "NotFound" THEN HFail("enter_group", "NotFound")
       ELSE IF ~IsBrowsable(r.value) THEN HFail("enter_group", "WrapFailure")
       ELSE /\ cursor + 2 <= MaxHist
            /\ HMoveTo("enter_group", r.value)
            /\ h_trail' = IF h_backs = 0 THEN Append(h_trail, r.value)
                          ELSE <<current, r.value>>
            /\ h_backs' = 0
            /\ segments' = trail_record(segments, cursor, name)

\* refresh current from the ledger and clear the selection
load_history_keep_selection(op, c) ==
    /\ cursor' = c
    /\ current' = entry_at(entries, c)
    /\ UNCHANGED selected_leaf
    /\ h_op' = op
    /\ h_err' = None
    /\ h_dropped' = 0
    /\ h_pre' = IF op = "go_back" THEN <<current, selected_leaf>>
               ELSE IF op = "go_forward" /\ h_op = "go_back" /\ h_err = None THEN h_pre
               ELSE <<>>
    /\ HFrame
    /\ UNCHANGED <<entries, locked, segments>>

load_history(op, c) ==
    /\ cursor' = c
    /\ current' = entry_at(entries, c)
    /\ selected_leaf' = None
    /\ h_op' = op
    /\ h_err' = None
    /\ h_dropped' = 0
    /\ h_pre' = IF op = "go_back" THEN <<current, selected_leaf>>
               ELSE IF op = "go_forward" /\ h_op = "go_back" /\ h_err = None THEN h_pre
               ELSE <<>>
    /\ HFrame
    /\ UNCHANGED <<entries, locked, segments>>

\* go_back()
go_back ==
    IF locked THEN HFail("go_back", "LockedNavigation")
    ELSE IF go_back_error(entries, cursor) # None
    THEN HFail("go_back", go_back_error(entries, cursor))
    ELSE /\ load_history("go_back", cursor - 1)
         /\ IF h_backs + 1 < Len(h_trail)
            THEN h_backs' = h_backs + 1 /\ UNCHANGED h_trail
            ELSE h_backs' = 0 /\ h_trail' = <<current'>>

\* go_forward()
go_forward ==
    IF locked THEN HFail("go_forward", "LockedNavigation")
    ELSE IF go_forward_error(entries, cursor) # None
    THEN HFail("go_forward", go_forward_error(entries, cursor))
    ELSE /\ load_history("go_forward", cursor + 1)
         /\ h_backs' = 0
         /\ h_trail' = <<current'>>

\* jump(index); jump_home() is jump(0)
jump(index) ==
    IF locked THEN HFail("jump", "LockedNavigation")
    ELSE IF jump_error(entries, index) # None
    THEN HFail("jump", jump_error(entries, index))
    ELSE /\ load_history("jump", index)
         /\ h_backs' = 0
         /\ h_trail' = <<current'>>

\* select_leaf(name): toggle, else fetch and select
select_leaf(name) ==
    /\ h_op' = "select_leaf"
    /\ HFrame
    /\ h_dropped' = 0
    /\ h_pre' = <<>>
    /\ UNCHANGED <<entries, cursor, current, locked, h_trail, h_backs, segments>>
    /\ IF name = selected_leaf
       THEN selected_leaf' = None /\ h_err' = None
       ELSE IF get(current, name).kind = "NotFound"
       THEN selected_leaf' = None /\ h_err' = "NotFound"
       ELSE selected_leaf' = name /\ h_err' = None

\* reset_selection()
reset_selection ==
    /\ selected_leaf' = None
    /\ h_op' = "reset_selection"
    /\ HFrame
    /\ h_dropped' = 0
    /\ h_pre' = <<>>
    /\ h_err' = None
    /\ UNCHANGED <<entries, cursor, current, locked, h_trail, h_backs, segments>>

\* set_locked(bool)
set_locked(b) ==
    /\ locked' = b
    /\ h_op' = "set_locked"
    /\ HFrame
    /\ h_dropped' = 0
    /\ h_pre' = <<>>
    /\ h_err' = None
    /\ UNCHANGED <<entries, cursor, current, selected_leaf, h_trail, h_backs, segments>>

\* direct position assignment (browser.project = value)
AssignInputs == {[root |-> r, path |-> <<>>] : r \in Roots} \cup {NotBrowsable}

assign_project(value) ==
    IF ~IsBrowsable(value) THEN HFail("assign", "TypeMismatch")
    ELSE /\ cursor + 2 <= MaxHist
         /\ HMoveTo("assign", value)
         /\ h_backs' = 0
         /\ h_trail' = <<value>>
         /\ segments' = IF cursor < Len(segments) THEN SubSeq(segments, 1, cursor)
                        ELSE segments

HNext ==
    \/ \E name \in Names : enter_group(name)
    \/ go_back
    \/ go_forward
    \/ \E index \in -1 .. MaxHist : jump(index)
    \/ \E name \in Names : select_leaf(name)
    \/ reset_selection
    \/ \E b \in BOOLEAN : set_locked(b)
    \/ \E value \in AssignInputs : assign_project(value)

\* ------------------------------------------------------------------------
\* Paths (os.path): a path is the sequence of its components
\* ------------------------------------------------------------------------
RECURSIVE NormalizeFrom(_, _)
NormalizeFrom(done, todo) ==
    IF todo = <<>> THEN done
    ELSE IF Head(todo) = "." THEN NormalizeFrom(done, Tail(todo))
    ELSE IF Head(todo) = ".."
    THEN NormalizeFrom(IF done = <<>> THEN done ELSE SubSeq(done, 1, Len(done) - 1), Tail(todo))
    ELSE NormalizeFrom(Append(done, Head(todo)), Tail(todo))

\* os.path.normpath of an absolute path
normpath(segs) == NormalizeFrom(<<>>, segs)

CommonLen(p, s) ==
    LET n == IF Len(p) < Len(s) THEN Len(p) ELSE Len(s)
        agree == {i \in 0 .. n : \A j \in 1 .. i : p[j] = s[j]}
    IN CHOOSE i \in agree : \A k \in agree : k <= i

\* os.path.relpath(path, start): so many ".." and the rest; "." is ups = 0, rest = <<>>
relpath(path, start) ==
    LET p == normpath(path)
        s == normpath(start)
        k == CommonLen(p, s)
    IN [ups |-> Len(s) - k, rest |-> SubSeq(p, k + 1, Len(p))]

IsDot(rel) == rel.ups = 0 /\ rel.rest = <<>>

\* the absolute path a relative path names below base
resolve(base, rel) == SubSeq(base, 1, Len(base) - rel.ups) \o rel.rest

\* ------------------------------------------------------------------------
\* ProjectBrowser (src/pyiron_gui/project/project_browser.py)
\* ------------------------------------------------------------------------
\* The file system of the tests' setUpClass (a job, an hdf file, a sub
\* project, a text file) seen through pyiron_base's Project, with a file
\* that is listed but cannot be read.
PBRootPath == <<"pr">>

\* Python's None where the other values are records
NoObject == [kind |-> "None"]

\* what project[...] finds at an absolute path
pb_kind(path) ==
    CASE path = <<>> -> "Project"
      [] path = <<"pr">> -> "Project"
      [] path = <<"pr", "sub">> -> "Project"
      [] path = <<"pr", "testjob">> -> "Job"
      [] path = <<"pr", "testjob", "input">> -> "GenericParameters"
      [] path = <<"pr", "testjob", "status">> -> "Value"
      [] path = <<"pr", "testjob", "input", "data_dict">> -> "Value"
      [] path = <<"pr", "text.txt">> -> "File"
      [] path = <<"pr", "sub", "text.txt">> -> "File"
      [] OTHER -> "None"

\* the values self._project takes: a Project, a BaseWrapper around the
\* object of a job, a raw hdf group
PBPositions ==
    {[kind |-> "Project", path |-> <<>>],
     [kind |-> "Project", path |-> <<"pr">>],
     [kind |-> "Project", path |-> <<"pr", "sub">>],
     [kind |-> "Wrapper", path |-> <<"pr", "testjob">>],
     [kind |-> "HDF", path |-> <<"pr", "testjob", "input">>]}

pb_initial_project == [kind |-> "Project", path |-> PBRootPath]

pb_list_groups(pos) ==
    CASE pos.path = <<>> -> <<"pr">>
      [] pos.path = <<"pr">> -> <<"sub">>
      [] pos.path = <<"pr", "testjob">> -> <<"input">>
      [] OTHER -> <<>>

pb_list_nodes(pos) ==
    CASE pos.path = <<"pr">> -> <<"testjob">>
      [] pos.path = <<"pr", "testjob">> -> <<"NAME", "TYPE", "status">>
      [] pos.path = <<"pr", "testjob", "input">> -> <<"TYPE", "data_dict">>
      [] OTHER -> <<>>

\* HDF and wrapped objects have no list_files (AttributeError)
pb_has_list_files(pos) == pos.kind = "Project"

pb_list_files(pos) ==
    CASE pos.path = <<"pr">> -> <<"testjob.h5", "test_hdf.h5", "text.txt", "gone.txt">>
      [] pos.path = <<"pr", "sub">> -> <<"text.txt">>
      [] OTHER -> <<>>

\* file.endswith(tuple(self._file_ext_filter)) with _file_ext_filter = ['.h5', '.db']
ends_with_filtered_ext(file) == file \in {"testjob.h5", "test_hdf.h5"}

node_filter == {"NAME", "TYPE", "VERSION", "HDF_VERSION"}

\* 'pyiron' in str(type(self.project)) at construction: the initial project is a Project
is_pyiron_obj == TRUE

\* isinstance(self.project, BaseProject)
node_as_dirs(pos) == pos.kind = "Project"

\* (a listing that shows every node of the source)
pb_nodes_unfiltered(pos) == pb_list_nodes(pos)

\* _update_files
pb_nodes(pos) ==
    LET keep(node) == ~is_pyiron_obj \/ node \notin node_filter
    IN SelectSeq(pb_list_nodes(pos), keep)

pb_dirs(pos) == pb_list_groups(pos)

pb_files(pos, show_files) ==
    LET keep(file) == ~ends_with_filtered_ext(file)
    IN SelectSeq(IF show_files /\ pb_has_list_files(pos) THEN pb_list_files(pos) ELSE <<>>, keep)

\* _update_filebox: the group buttons and the file buttons
pb_dir_buttons(pos) == IF node_as_dirs(pos) THEN pb_dirs(pos) \o pb_nodes(pos) ELSE pb_dirs(pos)

pb_file_buttons(pos, show_files) ==
    IF node_as_dirs(pos) THEN pb_files(pos, show_files)
    ELSE pb_files(pos, show_files) \o pb_nodes(pos)

\* self.project[item]: what is found at the path item names below the
\* current position.  BaseWrapper.__getitem__ asks the wrapped object first
\* and falls back to its project; what a job or an hdf group answers for a
\* path that leaves it is pyiron_base's business, so such a lookup either
\* resolves or finds nothing.
pb_found(pos, rel) ==
    LET target == resolve(pos.path, rel)
    IN [kind |-> pb_kind(target), path |-> target]

pb_getitem(pos, rel) ==
    IF pos.kind # "Project" /\ rel.ups > 0
    THEN {pb_found(pos, rel), [kind |-> "None", path |-> resolve(pos.path, rel)]}
    ELSE {pb_found(pos, rel)}

\* (a worker that takes whatever the lookup returned as the new project)
pb_update_project_worker_unchecked(new_project) ==
    CASE new_project.kind = "None" -> NoObject
      [] new_project.kind = "Job" -> [kind |-> "Wrapper", path |-> new_project.path]
      [] new_project.kind = "GenericParameters" -> [kind |-> "HDF", path |-> new_project.path]
      [] OTHER -> [kind |-> "Project", path |-> new_project.path]

\* (a worker that gives up when to_object fails)
pb_update_project_worker_strict(new_project) ==
    CASE new_project.kind \in {"None", "File", "Value", "GenericParameters"} -> NoObject
      [] new_project.kind = "Job" -> [kind |-> "Wrapper", path |-> new_project.path]
      [] OTHER -> [kind |-> "Project", path |-> new_project.path]

\* _update_project_worker: the new self._project, or None when the path is
\* not valid (list_nodes raises AttributeError)
pb_update_project_worker(new_project) ==
    CASE new_project.kind \in {"None", "File", "Value"} -> NoObject
      [] new_project.kind = "Job" -> [kind |-> "Wrapper", path |-> new_project.path]
      [] new_project.kind = "GenericParameters" -> [kind |-> "HDF", path |-> new_project.path]
      [] OTHER -> [kind |-> "Project", path |-> new_project.path]

\* FileData(data=data, file=filename, metadata={"path": filepath})
FileData(data, file, filepath) == [data |-> data, file |-> file, path |-> filepath]

\* the data property
pb_data_property(project, data) ==
    IF data # NoObject THEN data
    ELSE IF project.kind = "Wrapper" THEN [wrapped_object |-> project.path]
    ELSE NoObject

\* the try block of _on_click_file: the fetched data, None on KeyError/IOError
pb_fetch(pos, filename) ==
    LET found == pb_found(pos, [ups |-> 0, rest |-> <<filename>>])
    IN IF found.kind = "None" THEN NoObject ELSE found

\* refresh: self._node_as_dirs = isinstance(self.project, BaseProject)
\* (a flag computed once, when the browser is made)
refresh_node_as_dirs_once(old, project) == old

refresh_node_as_dirs(old, project) == node_as_dirs(project)

PBConstruct(fix_path, show_files) ==
    /\ pb_project = pb_initial_project
    /\ pb_fix_path = fix_path
    /\ pb_show_files = show_files
    /\ pb_clickedFiles = <<>>
    /\ pb_data = NoObject
    /\ pb_msg = ""
    /\ pb_op = "init"
    /\ pb_arg = None
    /\ pb_pre = [op |-> "init", arg |-> None, project |-> pb_initial_project,
                 fix_path |-> fix_path, clickedFiles |-> <<>>, data |-> NoObject]
    /\ pb_hide_path = TRUE
    /\ pb_home = pb_initial_project
    /\ pb_node_as_dirs = node_as_dirs(pb_initial_project)
    /\ pb_other = NoObject

PBInit == \E fix_path \in BOOLEAN, show_files \in BOOLEAN : PBConstruct(fix_path, show_files)

\* (two browsers that share one position)
PBFrame_shared_position ==
    /\ UNCHANGED <<hvars, bcvars, wvars, browser, dcvars, pb_hide_path>>
    /\ pb_other' = IF pb_other = NoObject THEN pb_other
                   ELSE [pb_other EXCEPT !.project = pb_project]
    /\ pb_pre' = [op |-> pb_op, arg |-> pb_arg, project |-> pb_project,
                  fix_path |-> pb_fix_path, clickedFiles |-> pb_clickedFiles,
                  data |-> pb_data]

\* every event of the ProjectBrowser leaves the other browsers alone; pb_pre
\* remembers the fields it started from
PBFrame ==
    /\ UNCHANGED <<hvars, bcvars, wvars, browser, dcvars, pb_hide_path, pb_other>>
    /\ pb_pre' = [op |-> pb_op, arg |-> pb_arg, project |-> pb_project,
                  fix_path |-> pb_fix_path, clickedFiles |-> pb_clickedFiles,
                  data |-> pb_data]

\* _update_project(path) for a string; path is absolute
pb_update_project(op, arg, path) ==
    LET rel_path == relpath(path, pb_project.path)
    IN /\ pb_op' = op
       /\ pb_arg' = arg
       /\ PBFrame
       /\ pb_home' = pb_initial_project
       /\ UNCHANGED <<pb_fix_path, pb_show_files, pb_clickedFiles, pb_data>>
       /\ IF IsDot(rel_path)
          THEN /\ pb_msg' = "" /\ UNCHANGED pb_project
               /\ pb_node_as_dirs' = refresh_node_as_dirs(pb_node_as_dirs, pb_project)
          ELSE \E found \in pb_getitem(pb_project, rel_path) :
                 LET new_project == pb_update_project_worker(found)
                 IN IF new_project = NoObject
                    THEN /\ pb_msg' = "No valid path" /\ UNCHANGED pb_project
                         /\ pb_node_as_dirs' = refresh_node_as_dirs(pb_node_as_dirs, pb_project)
                    ELSE /\ pb_msg' = "" /\ pb_project' = new_project
                         /\ pb_node_as_dirs' = refresh_node_as_dirs(pb_node_as_dirs, new_project)

\* on_click_group: a group button
pb_on_click_group(name) ==
    /\ browser = "ProjectBrowser"
    /\ name \in SeqToSet(pb_dir_buttons(pb_project))
    /\ pb_update_project("on_click_group", name, Append(pb_project.path, name))

\* the Set Path button with value in the path box
PathBoxValues ==
    {[abs |-> FALSE, segs |-> <<>>],
     [abs |-> FALSE, segs |-> <<"sub">>],
     [abs |-> FALSE, segs |-> <<"testjob">>],
     [abs |-> FALSE, segs |-> <<"testjob", "input">>],
     [abs |-> FALSE, segs |-> <<"text.txt">>],
     [abs |-> FALSE, segs |-> <<"NotExistingPath">>],
     [abs |-> FALSE, segs |-> <<"..">>],
     [abs |-> TRUE, segs |-> <<"pr">>],
     [abs |-> TRUE, segs |-> <<"pr", "sub">>]}

pb_click_set_path(value) ==
    /\ browser = "ProjectBrowser"
    /\ value \in PathBoxValues
    /\ IF pb_fix_path
       THEN /\ pb_op' = "set_path" /\ pb_arg' = "path" /\ pb_msg' = ""
            /\ PBFrame
            /\ UNCHANGED <<pb_project, pb_fix_path, pb_show_files, pb_clickedFiles, pb_data,
                           pb_home, pb_node_as_dirs>>
       ELSE IF ~value.abs /\ value.segs = <<>>
       THEN /\ pb_op' = "set_path" /\ pb_arg' = "path" /\ pb_msg' = "No path given"
            /\ PBFrame
            /\ UNCHANGED <<pb_project, pb_fix_path, pb_show_files, pb_clickedFiles, pb_data,
                           pb_home, pb_node_as_dirs>>
       ELSE pb_update_project("set_path", "path",
                              IF value.abs THEN value.segs ELSE pb_project.path \o value.segs)

\* the Reset selection button
\* (a reset that empties the list of clicked files but keeps the data)
pb_click_reset_selection_keep_data ==
    /\ browser = "ProjectBrowser"
    /\ pb_clickedFiles' = <<>>
    /\ pb_op' = "reset_selection" /\ pb_arg' = None /\ pb_msg' = ""
    /\ PBFrame
    /\ UNCHANGED <<pb_project, pb_fix_path, pb_show_files, pb_home, pb_node_as_dirs, pb_data>>

pb_click_reset_selection ==
    /\ browser = "ProjectBrowser"
    /\ pb_clickedFiles' = <<>>
    /\ pb_data' = NoObject
    /\ pb_op' = "reset_selection" /\ pb_arg' = None /\ pb_msg' = ""
    /\ PBFrame
    /\ UNCHANGED <<pb_project, pb_fix_path, pb_show_files, pb_home, pb_node_as_dirs>>

\* len(path) of the path string, for the buttons above the root path
SegLen(seg) ==
    CASE seg = "pr" -> 2 [] seg = "sub" -> 3 [] seg = "testjob" -> 7 [] seg = "input" -> 5
      [] OTHER -> 1

RECURSIVE PathStrLen(_)
PathStrLen(segs) ==
    IF segs = <<>> THEN 0 ELSE 1 + SegLen(Head(segs)) + PathStrLen(Tail(segs))

\* len(self._project_root_path[:-1]): the root path ends with a slash
len_root_path == PathStrLen(PBRootPath)

\* _gen_pathbox_path_list: the ancestors of the current path, root first
pb_gen_pathbox_path_list(pos) == [i \in 1 .. Len(pos.path) + 1 |-> SubSeq(pos.path, 1, i - 1)]

pb_path_button_disabled(fix_path, path) ==
    fix_path \/ (IF path = <<>> THEN 1 ELSE PathStrLen(path)) < len_root_path - 1

\* on_click of a path button (a disabled button takes no click)
pb_click_path_button(path) ==
    /\ browser = "ProjectBrowser"
    /\ path \in SeqToSet(pb_gen_pathbox_path_list(pb_project))
    /\ ~pb_path_button_disabled(pb_fix_path, path)
    /\ pb_update_project("path_button", "path", path)

\* on_click of the home button: _update_project(b.path), where b.path is the
\* self._initial_project of the refresh that built the button; the refresh
\* that follows builds it anew
\* (a home button that leaves the browser where it is)
pb_click_home_stay ==
    /\ browser = "ProjectBrowser"
    /\ ~pb_fix_path
    /\ pb_home' = pb_initial_project
    /\ pb_node_as_dirs' = refresh_node_as_dirs(pb_node_as_dirs, pb_project)
    /\ pb_op' = "home" /\ pb_arg' = None /\ pb_msg' = ""
    /\ PBFrame
    /\ UNCHANGED <<pb_project, pb_fix_path, pb_show_files, pb_clickedFiles, pb_data>>

pb_click_home ==
    /\ browser = "ProjectBrowser"
    /\ ~pb_fix_path
    /\ pb_project' = pb_home
    /\ pb_home' = pb_initial_project
    /\ pb_node_as_dirs' = refresh_node_as_dirs(pb_node_as_dirs, pb_home)
    /\ pb_op' = "home" /\ pb_arg' = None /\ pb_msg' = ""
    /\ PBFrame
    /\ UNCHANGED <<pb_fix_path, pb_show_files, pb_clickedFiles, pb_data>>

\* _on_click_file: the new <<_clickedFiles, _data>>
\* (a toggle that forgets to drop the data)
on_click_file_keep_data(clicked, data, pos, filename) ==
    LET filepath == Append(pos.path, filename)
        fetched == pb_fetch(pos, filename)
    IN IF filepath \in SeqToSet(clicked)
       THEN <<SelectSeq(clicked, LAMBDA f : f # filepath), data>>
       ELSE <<<<filepath>>,
              IF fetched # NoObject THEN FileData(fetched, filename, filepath) ELSE data>>

on_click_file(clicked, data, pos, filename) ==
    LET filepath == Append(pos.path, filename)
        fetched == pb_fetch(pos, filename)
    IN IF filepath \in SeqToSet(clicked)
       THEN <<SelectSeq(clicked, LAMBDA f : f # filepath), NoObject>>
       ELSE <<<<filepath>>,
              IF fetched # NoObject THEN FileData(fetched, filename, filepath) ELSE data>>

PBFileNames == {"text.txt", "gone.txt", "status", "data_dict", "NotAFileName.dat"}

\* on_click_file: a file button, or _on_click_file called with any name
pb_on_click_file(filename) ==
    /\ browser = "ProjectBrowser"
    /\ filename \in SeqToSet(pb_file_buttons(pb_project, pb_show_files)) \cup {"NotAFileName.dat"}
    /\ LET new == on_click_file(pb_clickedFiles, pb_data, pb_project, filename)
       IN /\ pb_clickedFiles' = new[1]
          /\ pb_data' = new[2]
    /\ pb_op' = "on_click_file" /\ pb_arg' = filename /\ pb_msg' = ""
    /\ PBFrame
    /\ UNCHANGED <<pb_project, pb_fix_path, pb_show_files, pb_home, pb_node_as_dirs>>

\* the fix_path setter / configure(fix_path=...)
pb_set_fix_path(fix_path) ==
    /\ browser = "ProjectBrowser"
    /\ pb_fix_path' = fix_path
    /\ pb_op' = "fix_path" /\ pb_arg' = None /\ pb_msg' = ""
    /\ pb_home' = pb_initial_project
    /\ pb_node_as_dirs' = refresh_node_as_dirs(pb_node_as_dirs, pb_project)
    /\ PBFrame
    /\ UNCHANGED <<pb_project, pb_show_files, pb_clickedFiles, pb_data>>

\* the show_files setter / configure(show_files=...)
pb_set_show_files(show_files) ==
    /\ browser = "ProjectBrowser"
    /\ pb_show_files' = show_files
    /\ pb_op' = "show_files" /\ pb_arg' = None /\ pb_msg' = ""
    /\ pb_home' = pb_initial_project
    /\ pb_node_as_dirs' = refresh_node_as_dirs(pb_node_as_dirs, pb_project)
    /\ PBFrame
    /\ UNCHANGED <<pb_project, pb_fix_path, pb_clickedFiles, pb_data>>

\* the hide_path setter / configure(hide_path=...)
pb_set_hide_path(hide_path) ==
    /\ browser = "ProjectBrowser"
    /\ pb_hide_path' = hide_path
    /\ pb_op' = "hide_path" /\ pb_arg' = None /\ pb_msg' = ""
    /\ pb_home' = pb_initial_project
    /\ pb_node_as_dirs' = refresh_node_as_dirs(pb_node_as_dirs, pb_project)
    /\ pb_pre' = [op |-> pb_op, arg |-> pb_arg, project |-> pb_project,
                  fix_path |-> pb_fix_path, clickedFiles |-> pb_clickedFiles,
                  data |-> pb_data]
    /\ UNCHANGED <<hvars, bcvars, wvars, browser, dcvars, pb_other>>
    /\ UNCHANGED <<pb_project, pb_fix_path, pb_show_files, pb_clickedFiles, pb_data>>

\* the fields of the browser the session drives
pb_fields ==
    [project |-> pb_project, fix_path |-> pb_fix_path, show_files |-> pb_show_files,
     hide_path |-> pb_hide_path, clickedFiles |-> pb_clickedFiles, data |-> pb_data,
     home |-> pb_home, node_as_dirs |-> pb_node_as_dirs]

\* __copy__: a new browser constructed on self.project with self's flags; its
\* home button was built by the constructor, before _initial_project was set
ProjectBrowser_copy(self) ==
    [project |-> self.project, fix_path |-> self.fix_path,
     show_files |-> self.show_files, hide_path |-> self.hide_path,
     clickedFiles |-> <<>>, data |-> NoObject, home |-> self.project,
     node_as_dirs |-> refresh_node_as_dirs(self.node_as_dirs, self.project)]

\* browser.copy(): the session holds a second browser
pb_copy ==
    /\ browser = "ProjectBrowser"
    /\ pb_other = NoObject
    /\ pb_other' = ProjectBrowser_copy(pb_fields)
    /\ pb_op' = "copy" /\ pb_arg' = None
    /\ pb_pre' = [op |-> pb_op, arg |-> pb_arg, project |-> pb_project,
                  fix_path |-> pb_fix_path, clickedFiles |-> pb_clickedFiles,
                  data |-> pb_data]
    /\ UNCHANGED <<hvars, bcvars, wvars, browser, dcvars>>
    /\ UNCHANGED <<pb_project, pb_fix_path, pb_show_files, pb_hide_path, pb_clickedFiles,
                   pb_data, pb_home, pb_node_as_dirs, pb_msg>>

\* the next events go to the other browser of the session
pb_switch ==
    /\ browser = "ProjectBrowser"
    /\ pb_other # NoObject
    /\ pb_other' = pb_fields
    /\ pb_project' = pb_other.project
    /\ pb_fix_path' = pb_other.fix_path
    /\ pb_show_files' = pb_other.show_files
    /\ pb_hide_path' = pb_other.hide_path
    /\ pb_clickedFiles' = pb_other.clickedFiles
    /\ pb_data' = pb_other.data
    /\ pb_home' = pb_other.home
    /\ pb_node_as_dirs' = pb_other.node_as_dirs
    /\ pb_op' = "switch" /\ pb_arg' = None /\ pb_msg' = ""
    /\ pb_pre' = [op |-> "switch", arg |-> None, project |-> pb_other.project,
                  fix_path |-> pb_other.fix_path, clickedFiles |-> pb_other.clickedFiles,
                  data |-> pb_other.data]
    /\ UNCHANGED <<hvars, bcvars, wvars, browser, dcvars>>

\* two browsers over one project: the first is configured and driven, then
\* copied, and from then on either of the two is driven
PBNextCopy ==
    \/ \E name \in {"pr", "sub", "testjob", "input"} : pb_on_click_group(name)
    \/ \E filename \in {"text.txt", "status"} : pb_on_click_file(filename)
    \/ pb_click_home
    \/ pb_click_reset_selection
    \/ pb_other = NoObject /\ \E hide_path \in BOOLEAN : pb_set_hide_path(hide_path)
    \/ pb_copy
    \/ pb_switch

PBNext ==
    \/ \E name \in {"pr", "sub", "testjob", "input"} : pb_on_click_group(name)
    \/ \E value \in PathBoxValues : pb_click_set_path(value)
    \/ pb_click_reset_selection
    \/ \E path \in {<<>>, <<"pr">>, <<"pr", "sub">>, <<"pr", "testjob">>,
                    <<"pr", "testjob", "input">>} : pb_click_path_button(path)
    \/ pb_click_home
    \/ \E filename \in PBFileNames : pb_on_click_file(filename)
    \/ \E fix_path \in BOOLEAN : pb_set_fix_path(fix_path)
    \/ \E show_files \in BOOLEAN : pb_set_show_files(show_files)

\* ------------------------------------------------------------------------
\* DataContainerBrowser (src/pyiron_gui/datacontainer/browser.py)
\* ------------------------------------------------------------------------
\* A path string is the sequence str.split('/') gives: '' is <<"">>, '/' is
\* <<"", "">>, '/B/B1' is <<"", "B", "B1">>, 'B/B1' is <<"B", "B1">>.  A key
\* of the container is the sequence of its names; the root is <<>>.

\* the nested container of the tests
dc_kind(key) ==
    CASE key = <<>> -> "group"
      [] key = <<"B">> -> "group"
      [] key = <<"B", "B1">> -> "group"
      [] key = <<"B", "B2">> -> "group"
      [] key = <<"C">> -> "group"
      [] key = <<"E">> -> "group"
      [] key \in {<<"A">>, <<"D">>, <<"B", "B3">>, <<"B", "B1", "a">>, <<"B", "B2", "h">>,
                  <<"E", "some_node">>, <<"E", "TYPE">>} -> "value"
      [] key = <<"B", "B1", "f">> -> "NoneValue"
      [] OTHER -> "KeyError"

dc_list_groups(key) ==
    CASE key = <<>> -> <<"B", "C", "E">>
      [] key = <<"B">> -> <<"B1", "B2">>
      [] OTHER -> <<>>

dc_list_nodes(key) ==
    CASE key = <<>> -> <<"A", "D">>
      [] key = <<"B">> -> <<"B3">>
      [] key = <<"B", "B1">> -> <<"a", "f">>
      [] key = <<"B", "B2">> -> <<"h">>
      [] key = <<"E">> -> <<"some_node", "TYPE">>
      [] OTHER -> <<>>

\* names that are not in the container until a value is assigned to them
DCNewNames == <<"NotAFileName.dat">>

\* _update_files: list_nodes() of the container at key, with the keys created since
dc_nodes(key) ==
    dc_list_nodes(key) \o
        SelectSeq(DCNewNames, LAMBDA n : /\ Append(key, n) \in DOMAIN dc_written
                                        /\ dc_kind(Append(key, n)) = "KeyError")

\* container[item] with item a path string, looked up below the container at key
dc_getitem(key, item) ==
    LET target == key \o item
    IN [kind |-> dc_kind(target), key |-> target]

\* os.path.join(self.path, name)
dc_join(path, name) == IF path = <<"">> THEN <<name>> ELSE Append(path, name)

\* abs_path: '/' + self._path
abs_path(path) == <<"">> \o path

\* os.path.isabs
isabs(path) == Len(path) >= 2 /\ path[1] = ""

DCConstruct ==
    /\ dc_path = <<"">>
    /\ dc_current = <<>>
    /\ dc_clicked_data = <<>>
    /\ dc_data = NoObject
    /\ dc_busy = FALSE
    /\ dc_msg = ""
    /\ dc_op = "init"
    /\ dc_arg = None
    /\ dc_pre = [op |-> "init", arg |-> None, path |-> <<"">>, clicked_data |-> <<>>,
                 data |-> NoObject]
    /\ dc_written = <<>>
    /\ dc_other = NoObject

\* every event of the DataContainerBrowser leaves the other browsers alone;
\* dc_pre remembers the fields it started from
DCFrame ==
    /\ UNCHANGED <<hvars, bcvars, wvars, browser, pbvars, dc_written, dc_other>>
    /\ dc_pre' = [op |-> dc_op, arg |-> dc_arg, path |-> dc_path,
                  clicked_data |-> dc_clicked_data, data |-> dc_data]

\* a handler that finds the browser busy returns at once
dc_rejected ==
    /\ dc_busy
    /\ dc_op' = "rejected" /\ dc_arg' = None
    /\ DCFrame
    /\ UNCHANGED <<dc_path, dc_current, dc_clicked_data, dc_data, dc_busy, dc_msg>>

\* a worker that takes the new path and keeps the container it had
dc_update_project_worker_path_only(path, old_path, old_current) ==
    IF path = <<"", "">> \/ path = <<"">> THEN <<<<"">>, <<>>, "">>
    ELSE LET key == IF path[1] = "" THEN Tail(path) ELSE path
             new_project == dc_getitem(<<>>, key)
         IN IF new_project.kind = "group" THEN <<key, old_current, "">>
            ELSE <<old_path, old_current, "No valid path">>

\* _update_project_worker: the new <<_path, _current_data_container, message>>
dc_update_project_worker(path, old_path, old_current) ==
    IF path = <<"", "">> \/ path = <<"">> THEN <<<<"">>, <<>>, "">>
    ELSE LET key == IF path[1] = "" THEN Tail(path) ELSE path
             new_project == dc_getitem(<<>>, key)
         IN IF new_project.kind = "group" THEN <<key, new_project.key, "">>
            ELSE <<old_path, old_current, "No valid path">>

\* _update_project(path) for a string inside a guarded handler; relpath
\* raises ValueError for the empty string and the busy flag stays set
dc_update_project(op, arg, path) ==
    /\ dc_arg' = arg
    /\ DCFrame
    /\ UNCHANGED <<dc_clicked_data, dc_data>>
    /\ IF path = <<"">>
       THEN /\ dc_op' = "raised" /\ dc_busy' = TRUE
            /\ UNCHANGED <<dc_path, dc_current, dc_msg>>
       ELSE /\ dc_op' = op
            /\ UNCHANGED dc_busy
            /\ IF isabs(path) /\ normpath(path) = normpath(abs_path(dc_path))
               THEN dc_msg' = "" /\ UNCHANGED <<dc_path, dc_current>>
               ELSE LET new == dc_update_project_worker(path, dc_path, dc_current)
                    IN dc_path' = new[1] /\ dc_current' = new[2] /\ dc_msg' = new[3]

\* on_click_group: a group button
dc_on_click_group(name) ==
    /\ browser = "DataContainerBrowser"
    /\ name \in SeqToSet(dc_list_groups(dc_current))
    /\ \/ dc_rejected
       \/ ~dc_busy /\ dc_update_project("on_click_group", name, dc_join(dc_path, name))

\* the Set Path button with value in the path box
DCPathBoxValues ==
    {<<"">>, <<"B">>, <<"B1">>, <<"B", "B1">>, <<"A">>, <<"NotExistingPath">>, <<"..">>,
     <<"", "">>, <<"", "B">>, <<"", "B", "B2">>, <<"", "E">>}

dc_click_set_path(value) ==
    /\ browser = "DataContainerBrowser"
    /\ value \in DCPathBoxValues
    /\ \/ dc_rejected
       \/ /\ ~dc_busy
          /\ IF value = <<"">>
             THEN /\ dc_op' = "set_path" /\ dc_arg' = "path" /\ dc_msg' = "No path given"
                  /\ DCFrame
                  /\ UNCHANGED <<dc_path, dc_current, dc_clicked_data, dc_data, dc_busy>>
             ELSE dc_update_project("set_path", "path",
                                    IF isabs(value) THEN value ELSE abs_path(dc_path) \o value)

\* the Reset selection button
dc_click_reset_selection ==
    /\ browser = "DataContainerBrowser"
    /\ \/ dc_rejected
       \/ /\ ~dc_busy
          /\ dc_clicked_data' = <<>>
          /\ dc_data' = NoObject
          /\ dc_op' = "reset_selection" /\ dc_arg' = None /\ dc_msg' = ""
          /\ DCFrame
          /\ UNCHANGED <<dc_path, dc_current, dc_busy>>

\* _gen_pathbox_path_list: [''] at the root, else '/', '/B', '/B/B1'
dc_gen_pathbox_path_list(path) ==
    IF path = <<"">> THEN <<<<"">>>>
    ELSE [i \in 1 .. Len(path) + 1 |-> IF i = 1 THEN <<"", "">> ELSE <<"">> \o SubSeq(path, 1, i - 1)]

\* on_click of a path button
dc_click_path_button(path) ==
    /\ browser = "DataContainerBrowser"
    /\ path \in SeqToSet(dc_gen_pathbox_path_list(dc_path))
    /\ \/ dc_rejected
       \/ ~dc_busy /\ dc_update_project("path_button", "path", path)

\* on_click of the home button: _update_project(self._data_container)
dc_click_home ==
    /\ browser = "DataContainerBrowser"
    /\ \/ dc_rejected
       \/ /\ ~dc_busy
          /\ dc_path' = <<"">>
          /\ dc_current' = <<>>
          /\ dc_op' = "home" /\ dc_arg' = None /\ dc_msg' = ""
          /\ DCFrame
          /\ UNCHANGED <<dc_clicked_data, dc_data, dc_busy>>

\* _on_click_file: the new <<_clicked_data, _data>>
dc_select(clicked, path, filename) ==
    LET filepath == dc_join(path, filename)
    IN IF filepath \in SeqToSet(clicked)
       THEN <<SelectSeq(clicked, LAMBDA f : f # filepath), NoObject>>
       ELSE <<<<filepath>>, [path |-> filepath]>>

DCFileNames == {"A", "D", "B3", "a", "f", "h", "some_node", "TYPE", "NotAFileName.dat"}

\* on_click_file: a node button, or _on_click_file called with any name
dc_on_click_file(filename) ==
    /\ browser = "DataContainerBrowser"
    /\ \/ filename \in SeqToSet(dc_nodes(dc_current)) /\ dc_rejected
       \/ /\ filename \in SeqToSet(dc_nodes(dc_current)) => ~dc_busy
          /\ filename \in SeqToSet(dc_nodes(dc_current)) \cup {"NotAFileName.dat"}
          /\ LET new == dc_select(dc_clicked_data, dc_path, filename)
             IN /\ dc_clicked_data' = new[1]
                /\ dc_data' = new[2]
          /\ dc_op' = "on_click_file" /\ dc_arg' = filename /\ dc_msg' = ""
          /\ DCFrame
          /\ UNCHANGED <<dc_path, dc_current, dc_busy>>

\* (a getter that reads the container as it was built)
dc_data_property_unwritten(data) ==
    IF data # NoObject THEN dc_getitem(<<>>, data.path) ELSE NoObject

\* the data property: self._data_container[self._data], which raises KeyError
dc_data_property(data) ==
    IF data = NoObject THEN NoObject
    ELSE IF data.path \in DOMAIN dc_written
    THEN [kind |-> "value", key |-> data.path, value |-> dc_written[data.path]]
    ELSE dc_getitem(<<>>, data.path)

\* the data setter: assigns to the selected key of the container, empties
\* _clicked_data and refreshes; RuntimeError when nothing is selected
dc_set_data(value) ==
    /\ browser = "DataContainerBrowser"
    /\ dc_arg' = value
    /\ dc_pre' = [op |-> dc_op, arg |-> dc_arg, path |-> dc_path,
                  clicked_data |-> dc_clicked_data, data |-> dc_data]
    /\ UNCHANGED <<hvars, bcvars, wvars, browser, pbvars, dc_other>>
    /\ UNCHANGED <<dc_path, dc_current, dc_data, dc_busy>>
    /\ IF dc_data # NoObject
       THEN /\ dc_written' = [k \in DOMAIN dc_written \cup {dc_data.path} |->
                                 IF k = dc_data.path THEN value ELSE dc_written[k]]
            /\ dc_clicked_data' = <<>>
            /\ dc_msg' = "WARNING: Data changed!"
            /\ dc_op' = "set_data"
       ELSE /\ dc_op' = "RuntimeError"
            /\ UNCHANGED <<dc_written, dc_clicked_data, dc_msg>>

\* the fields of the browser the session drives
dc_fields ==
    [path |-> dc_path, current |-> dc_current, clicked_data |-> dc_clicked_data,
     data |-> dc_data, busy |-> dc_busy]

\* __copy__: a new browser constructed on self._data_container
DataContainerBrowser_copy(self) ==
    [path |-> <<"">>, current |-> <<>>, clicked_data |-> <<>>, data |-> NoObject,
     busy |-> FALSE]

\* browser.copy(): the session holds a second browser over the same container
dc_copy ==
    /\ browser = "DataContainerBrowser"
    /\ dc_other = NoObject
    /\ dc_other' = DataContainerBrowser_copy(dc_fields)
    /\ dc_op' = "copy" /\ dc_arg' = None
    /\ dc_pre' = [op |-> dc_op, arg |-> dc_arg, path |-> dc_path,
                  clicked_data |-> dc_clicked_data, data |-> dc_data]
    /\ UNCHANGED <<hvars, bcvars, wvars, browser, pbvars, dc_written>>
    /\ UNCHANGED <<dc_path, dc_current, dc_clicked_data, dc_data, dc_busy, dc_msg>>

\* the next events go to the other browser of the session
dc_switch ==
    /\ browser = "DataContainerBrowser"
    /\ dc_other # NoObject
    /\ dc_other' = dc_fields
    /\ dc_path' = dc_other.path
    /\ dc_current' = dc_other.current
    /\ dc_clicked_data' = dc_other.clicked_data
    /\ dc_data' = dc_other.data
    /\ dc_busy' = dc_other.busy
    /\ dc_op' = "switch" /\ dc_arg' = None /\ dc_msg' = ""
    /\ dc_pre' = [op |-> "switch", arg |-> None, path |-> dc_other.path,
                  clicked_data |-> dc_other.clicked_data, data |-> dc_other.data]
    /\ UNCHANGED <<hvars, bcvars, wvars, browser, pbvars, dc_written>>

\* two browsers over one container
DCNextCopy ==
    \/ \E name \in {"B", "B1"} : dc_on_click_group(name)
    \/ \E filename \in {"A", "a", "NotAFileName.dat"} : dc_on_click_file(filename)
    \/ dc_click_home
    \/ dc_click_reset_selection
    \/ /\ IF dc_data = NoObject THEN TRUE
          ELSE dc_data.path \in DOMAIN dc_written \/ Cardinality(DOMAIN dc_written) < MaxWrites
       /\ \E value \in {"v1", "v2"} : dc_set_data(value)
    \/ dc_copy
    \/ dc_switch

DCNext ==
    \/ \E name \in {"B", "C", "E", "B1", "B2"} : dc_on_click_group(name)
    \/ \E value \in DCPathBoxValues : dc_click_set_path(value)
    \/ dc_click_reset_selection
    \/ \E path \in {<<"">>, <<"", "">>, <<"", "B">>, <<"", "B", "B1">>, <<"", "B", "B2">>,
                    <<"", "C">>, <<"", "E">>} : dc_click_path_button(path)
    \/ dc_click_home
    \/ \E filename \in DCFileNames : dc_on_click_file(filename)

\* ------------------------------------------------------------------------
\* _BusyCheck (src/pyiron_gui/utils/busy_check.py, utils/decorators.py)
\* ------------------------------------------------------------------------
\* the widget registry holds at most MaxWidgets widgets, a decorated function
\* calls decorated functions at most MaxDepth deep
WidgetKeys == 1..MaxWidgets

\* _BusyCheck(): not busy, nothing saved; no widget has been made yet
BCConstruct ==
    /\ bc_busy = FALSE
    /\ bc_widget_state = <<>>
    /\ bc_widgets = <<>>
    /\ bc_depth = 0
    /\ bc_op = "init" /\ bc_eff = "none" /\ bc_ret = None
    /\ bc_pre = <<>>
    /\ bc_clean = TRUE

\* the keys of the registered widgets that are Buttons
Buttons(w) == {k \in DOMAIN w : w[k].button}

\* (a guard that enables every button it saved when it is released)
busy_setter_enable_all(value, w, ws) ==
    IF value
    THEN [widgets |-> [k \in DOMAIN w |->
                          IF w[k].button THEN [w[k] EXCEPT !.disabled = TRUE] ELSE w[k]],
          widget_state |-> [k \in DOMAIN ws \cup Buttons(w) |->
                               IF k \in Buttons(w) THEN w[k].disabled ELSE ws[k]],
          raised |-> FALSE]
    ELSE [widgets |-> [k \in DOMAIN w |->
                          IF k \in DOMAIN ws THEN [w[k] EXCEPT !.disabled = FALSE] ELSE w[k]],
          widget_state |-> ws,
          raised |-> FALSE]

\* the saved keys that are no longer in the registry
missing_widgets(w, ws) == DOMAIN ws \ DOMAIN w

\* the busy setter on the registry w with the saved flags ws: setting True
\* saves the disabled flag of every registered Button and disables it, setting
\* False writes the saved flags back in the order they were saved; wid[key]
\* raises KeyError at the first saved key that is not in the registry, before
\* _busy is assigned
busy_setter(value, w, ws) ==
    IF value
    THEN [widgets |-> [k \in DOMAIN w |->
                          IF w[k].button THEN [w[k] EXCEPT !.disabled = TRUE] ELSE w[k]],
          widget_state |-> [k \in DOMAIN ws \cup Buttons(w) |->
                               IF k \in Buttons(w) THEN w[k].disabled ELSE ws[k]],
          raised |-> FALSE]
    ELSE [widgets |-> [k \in DOMAIN w |->
                          IF k \in DOMAIN ws /\ \A m \in missing_widgets(w, ws) : k < m
                          THEN [w[k] EXCEPT !.disabled = ws[k]] ELSE w[k]],
          widget_state |-> ws,
          raised |-> missing_widgets(w, ws) # {}]

\* what a call does to the guard
bc_effect(value) ==
    IF value THEN (IF bc_busy THEN "reacquire" ELSE "acquire")
    ELSE (IF bc_busy THEN "release" ELSE "rerelease")

\* every call on the guard leaves the browsers alone
BCFrame == UNCHANGED <<hvars, browser, pbvars, dcvars, wvars>>

\* self.busy = value
bc_assign_busy(value) ==
    /\ bc_busy' = IF busy_setter(value, bc_widgets, bc_widget_state).raised
                  THEN bc_busy ELSE value
    /\ bc_widgets' = busy_setter(value, bc_widgets, bc_widget_state).widgets
    /\ bc_widget_state' = busy_setter(value, bc_widgets, bc_widget_state).widget_state
    /\ bc_eff' = IF busy_setter(value, bc_widgets, bc_widget_state).raised
                 THEN "KeyError" ELSE bc_effect(value)
    /\ bc_pre' = IF value /\ ~bc_busy THEN bc_widgets ELSE bc_pre
    /\ bc_clean' = IF value THEN ~bc_busy ELSE bc_clean

\* (a guard that lets the second caller in)
bc_busy_check_reentrant(busy) ==
    /\ bc_ret' = None
    /\ bc_assign_busy(busy)

\* _busy_check(busy): True when the guard is held and asked for, else the
\* guard is set to busy and None returned
bc_busy_check(busy) ==
    IF bc_busy /\ busy
    THEN /\ bc_ret' = "True"
         /\ bc_eff' = "rejected"
         /\ UNCHANGED <<bc_busy, bc_widgets, bc_widget_state, bc_pre, bc_clean>>
    ELSE /\ bc_ret' = None
         /\ bc_assign_busy(busy)

\* busy_check.busy = value, called from outside
bc_set_busy(value) ==
    /\ browser = "_BusyCheck"
    /\ bc_op' = "busy="
    /\ bc_assign_busy(value)
    /\ UNCHANGED <<bc_depth, bc_ret>>
    /\ BCFrame

\* busy_check._busy_check(busy), called from outside
bc_call_busy_check(busy) ==
    /\ browser = "_BusyCheck"
    /\ bc_op' = "_busy_check"
    /\ bc_busy_check(busy)
    /\ UNCHANGED bc_depth
    /\ BCFrame

\* a decorated function is called: rejected when the guard is held, else its
\* body begins
bc_decorated_call ==
    /\ browser = "_BusyCheck"
    /\ bc_depth < MaxDepth
    /\ bc_op' = "decorated"
    /\ bc_busy_check(TRUE)
    /\ bc_depth' = IF bc_busy THEN bc_depth ELSE bc_depth + 1
    /\ BCFrame

\* the body of a decorated function ends, by return or by an exception: the
\* finally clause calls _busy_check(False)
bc_decorated_exit(raises) ==
    /\ browser = "_BusyCheck"
    /\ bc_depth > 0
    /\ bc_op' = IF raises \/ busy_setter(FALSE, bc_widgets, bc_widget_state).raised
                THEN "raised" ELSE "returned"
    /\ bc_busy_check(FALSE)
    /\ bc_depth' = bc_depth - 1
    /\ BCFrame

\* the key of the next widget: keys are handed out in rising order
next_widget_key(w, ws) ==
    LET used == DOMAIN w \cup DOMAIN ws
    IN IF used = {} THEN 1 ELSE 1 + CHOOSE k \in used : \A j \in used : j <= k

\* widgets.Button(...) or another widget is made: it enters the registry,
\* enabled
bc_new_widget(button) ==
    /\ browser = "_BusyCheck"
    /\ next_widget_key(bc_widgets, bc_widget_state) <= MaxWidgets
    /\ bc_widgets' = [k \in DOMAIN bc_widgets \cup
                                {next_widget_key(bc_widgets, bc_widget_state)} |->
                         IF k \in DOMAIN bc_widgets THEN bc_widgets[k]
                         ELSE [button |-> button, disabled |-> FALSE]]
    /\ bc_op' = "Widget" /\ bc_eff' = "none"
    /\ UNCHANGED <<bc_busy, bc_widget_state, bc_depth, bc_ret, bc_pre, bc_clean>>
    /\ BCFrame

\* widget.disabled = disabled
bc_set_disabled(key, disabled) ==
    /\ browser = "_BusyCheck"
    /\ key \in DOMAIN bc_widgets
    /\ bc_widgets[key].disabled # disabled
    /\ bc_widgets' = [bc_widgets EXCEPT ![key].disabled = disabled]
    /\ bc_op' = "disabled=" /\ bc_eff' = "none"
    /\ UNCHANGED <<bc_busy, bc_widget_state, bc_depth, bc_ret, bc_pre, bc_clean>>
    /\ BCFrame

\* widget.close(): the widget leaves the registry
bc_close_widget(key) ==
    /\ browser = "_BusyCheck"
    /\ key \in DOMAIN bc_widgets
    /\ bc_widgets' = [k \in DOMAIN bc_widgets \ {key} |-> bc_widgets[k]]
    /\ bc_op' = "close" /\ bc_eff' = "none"
    /\ UNCHANGED <<bc_busy, bc_widget_state, bc_depth, bc_ret, bc_pre, bc_clean>>
    /\ BCFrame

BCNext ==
    \/ \E value \in BOOLEAN : bc_set_busy(value)
    \/ \E busy \in BOOLEAN : bc_call_busy_check(busy)
    \/ bc_decorated_call
    \/ \E raises \in BOOLEAN : bc_decorated_exit(raises)
    \/ \E button \in BOOLEAN : bc_new_widget(button)
    \/ \E key \in WidgetKeys, disabled \in BOOLEAN : bc_set_disabled(key, disabled)

\* DataContainerBrowser._busy_check(busy), called from outside
dc_busy_check(busy) ==
    /\ browser = "DataContainerBrowser"
    /\ dc_op' = IF dc_busy /\ busy THEN "rejected" ELSE "_busy_check"
    /\ dc_arg' = None
    /\ dc_busy' = IF dc_busy /\ busy THEN dc_busy ELSE busy
    /\ DCFrame
    /\ UNCHANGED <<dc_path, dc_current, dc_clicked_data, dc_data, dc_msg>>

\* ------------------------------------------------------------------------
\* Widgets (src/pyiron_gui/wrapper/wrapper.py)
\* ------------------------------------------------------------------------
\* a session that drives a browser has made no widget
NoWidget ==
    /\ widget = None
    /\ np_widget = NoObject
    /\ mu_widget = NoObject
    /\ at_widget = NoObject
    /\ fd_widget = NoObject
    /\ wrapper = NoObject
    /\ mp = NoObject
    /\ pl = NoObject

\* ---- NumpyWidget: arrays of rank 1..MaxRank, every axis AxisLen long
\* slice(None) in an index tuple
slice_None == -1

\* the values of the SelectMultiple 'Plot-Dim': the selected axes, ascending
RECURSIVE AscendingSeqs(_, _)
AscendingSeqs(from, ndim) ==
    IF from >= ndim THEN {<<>>}
    ELSE AscendingSeqs(from + 1, ndim)
            \cup {<<from>> \o rest : rest \in AscendingSeqs(from + 1, ndim)}

\* the loop of _plot_array over the axes index..ndim-1, i fixed indices
\* already used
\* (a loop that never advances to the next fixed index)
RECURSIVE plot_slc_first_index(_, _, _, _, _)
plot_slc_first_index(ndim, dim, idx, index, i) ==
    IF index >= ndim THEN <<>>
    ELSE IF index \in SeqToSet(dim)
    THEN <<slice_None>> \o plot_slc_first_index(ndim, dim, idx, index + 1, i)
    ELSE <<idx[1]>> \o plot_slc_first_index(ndim, dim, idx, index + 1, i + 1)

RECURSIVE plot_slc(_, _, _, _, _)
plot_slc(ndim, dim, idx, index, i) ==
    IF index >= ndim THEN <<>>
    ELSE IF index \in SeqToSet(dim)
    THEN <<slice_None>> \o plot_slc(ndim, dim, idx, index + 1, i)
    ELSE <<idx[i + 1]>> \o plot_slc(ndim, dim, idx, index + 1, i + 1)

\* val[tuple(slc)] raises IndexError when a fixed index is outside its axis
index_error(slc) == \E k \in 1..Len(slc) : slc[k] >= AxisLen

\* _init_plot_option_widgets: no options below rank 3, else axes 0 and 1
\* selected and ndim - 2 fixed indices, all 0
init_plot_options(ndim) ==
    IF ndim < 3 THEN [dim |-> <<>>, idx |-> <<>>]
    ELSE [dim |-> <<0, 1>>, idx |-> [k \in 1..(ndim - 2) |-> 0]]

\* (a plot that falls back to the first two axes when the selection is not
\* two axes)
plot_array_default_slice(w) ==
    IF w.ndim < 3
    THEN [w EXCEPT !.plotted = [k \in 1..w.ndim |-> slice_None], !.shown = "figure",
                   !.msg = "", !.raised = None]
    ELSE IF Len(w.dim) # 2
    THEN [w EXCEPT !.plotted = [k \in 1..w.ndim |-> IF k <= 2 THEN slice_None ELSE 0],
                   !.shown = "figure", !.msg = "", !.raised = None]
    ELSE LET slc == plot_slc(w.ndim, w.dim, w.idx, 0, 0)
         IN IF index_error(slc)
            THEN [w EXCEPT !.plotted = <<>>, !.msg = "", !.raised = "IndexError"]
            ELSE [w EXCEPT !.plotted = slc, !.shown = "figure", !.msg = "",
                           !.raised = None]

\* _plot_array: clears the axes, plots the array (rank 1, 2) or the selected
\* slice, and displays the figure; with a selection that is not two axes it
\* prints the error and returns after clearing the axes
plot_array(w) ==
    IF w.ndim < 3
    THEN [w EXCEPT !.plotted = [k \in 1..w.ndim |-> slice_None], !.shown = "figure",
                   !.msg = "", !.raised = None]
    ELSE IF Len(w.dim) # 2
    THEN [w EXCEPT !.plotted = <<>>,
                   !.msg = "Error: You need to select exactly two dimensions.",
                   !.raised = None]
    ELSE LET slc == plot_slc(w.ndim, w.dim, w.idx, 0, 0)
         IN IF index_error(slc)
            THEN [w EXCEPT !.plotted = <<>>, !.msg = "", !.raised = "IndexError"]
            ELSE [w EXCEPT !.plotted = slc, !.shown = "figure", !.msg = "",
                           !.raised = None]

\* _show_plot: the header of the plot view
show_plot(w) == [w EXCEPT !.header = "plot"]

\* NumpyWidget(numpy_array)
NumpyWidget(ndim) ==
    LET options == init_plot_options(ndim)
        w == [ndim |-> ndim, dim |-> options.dim, idx |-> options.idx, plotted |-> <<>>,
              shown |-> "nothing", header |-> "empty", msg |-> "", raised |-> None,
              op |-> "init"]
    IN show_plot(plot_array(w))

NPInit ==
    /\ widget = "NumpyWidget"
    /\ \E ndim \in 1..MaxRank : np_widget = NumpyWidget(ndim)
    /\ mu_widget = NoObject
    /\ at_widget = NoObject
    /\ fd_widget = NoObject
    /\ wrapper = NoObject
    /\ mp = NoObject
    /\ pl = NoObject

\* every event of a widget leaves the browsers and the guard alone
WFrame == UNCHANGED <<hvars, browser, pbvars, dcvars, bcvars, widget, mp, pl>>

NPFrame == WFrame /\ UNCHANGED <<mu_widget, at_widget, fd_widget, wrapper>>

\* the user changes the selection of 'Plot-Dim'
np_select_dim(value) ==
    /\ widget = "NumpyWidget"
    /\ np_widget.ndim >= 3
    /\ \A k \in 1..Len(value) : value[k] < np_widget.ndim
    /\ value # np_widget.dim
    /\ np_widget' = [np_widget EXCEPT !.dim = value, !.op = "select_dim", !.msg = "",
                                      !.raised = None]
    /\ NPFrame

\* the user enters a value for the k-th fixed index
np_set_fixed_index(k, value) ==
    /\ widget = "NumpyWidget"
    /\ k \in 1..Len(np_widget.idx)
    /\ value # np_widget.idx[k]
    /\ np_widget' = [np_widget EXCEPT !.idx[k] = value, !.op = "set_fixed_index",
                                      !.msg = "", !.raised = None]
    /\ NPFrame

\* _click_replot_button ('Apply', 'Replot', 'Show plot'): _plot_array, then
\* _show_plot unless _plot_array raised
np_click_replot ==
    /\ widget = "NumpyWidget"
    /\ LET w == plot_array(np_widget)
       IN np_widget' = [(IF w.raised = None THEN show_plot(w) ELSE w) EXCEPT !.op = "replot"]
    /\ NPFrame

\* _click_show_data_button: the array itself is displayed
np_click_show_data ==
    /\ widget = "NumpyWidget"
    /\ np_widget' = [np_widget EXCEPT !.header = "data", !.shown = "data",
                                      !.op = "show_data", !.msg = "", !.raised = None]
    /\ NPFrame

\* the values entered for a fixed index: the first and the last index of an
\* axis, and the first one past its end
fixed_index_values == {0, AxisLen - 1, AxisLen}

\* the selections 'Plot-Dim' can hold: axes in ascending order
plot_dim_values == AscendingSeqs(0, MaxRank)

NPNext ==
    \/ \E value \in plot_dim_values : np_select_dim(value)
    \/ \E k \in 1..(MaxRank - 2), value \in fixed_index_values : np_set_fixed_index(k, value)
    \/ np_click_replot
    \/ np_click_show_data

\* ---- MurnaghanWidget: the fit cached on the job is input["fit_type"] and
\* ---- input["fit_order"]
MaxFitOrder == 3

fit_types == {"polynomial", "birch", "birchmurnaghan", "murnaghan", "pouriertarantola",
              "vinet"}

fit_orders == 1..MaxFitOrder

\* the refit test of _update_box without the comparison of the orders
needs_fit_type_only(options, input) ==
    input.fit_type # options.fit_type

\* the conditions of the if/elif chain of _update_box: is a fit method called
needs_fit(options, input) ==
    IF options.fit_type = "polynomial"
    THEN input.fit_type # "polynomial" \/ input.fit_order # options.fit_order
    ELSE input.fit_type # options.fit_type

\* the method the chain calls for a fit type
fit_method(fit_type) ==
    CASE fit_type = "polynomial" -> "fit_polynomial"
      [] fit_type = "birchmurnaghan" -> "fit_birch_murnaghan"
      [] fit_type = "murnaghan" -> "fit_murnaghan"
      [] fit_type = "vinet" -> "fit_vinet"
      [] OTHER -> "_fit_eos_general"

\* MurnaghanWidget.__init__: the options start from the job's fit type and
\* order 3; _init_option_widgets hides the order unless the type is polynomial
MurnaghanWidget(input) ==
    [fit_type |-> input.fit_type, fit_order |-> 3,
     order_disabled |-> (input.fit_type # "polynomial"),
     options |-> [fit_type |-> input.fit_type, fit_order |-> 3],
     input |-> input, pre |-> input,
     fitted |-> None, plotted |-> FALSE, header |-> <<>>, op |-> "init"]

MUInit ==
    /\ widget = "MurnaghanWidget"
    /\ \E t \in fit_types, o \in fit_orders :
          mu_widget = MurnaghanWidget([fit_type |-> t, fit_order |-> o])
    /\ np_widget = NoObject
    /\ at_widget = NoObject
    /\ fd_widget = NoObject
    /\ wrapper = NoObject
    /\ mp = NoObject
    /\ pl = NoObject

MUFrame == WFrame /\ UNCHANGED <<np_widget, at_widget, fd_widget, wrapper>>

\* the user picks a fit type: _on_change_fit_type shows or hides the order
mu_select_fit_type(value) ==
    /\ widget = "MurnaghanWidget"
    /\ value # mu_widget.fit_type
    /\ mu_widget' = [mu_widget EXCEPT !.fit_type = value,
                                      !.order_disabled = (value # "polynomial"),
                                      !.fitted = None, !.plotted = FALSE,
                                      !.op = "select_fit_type"]
    /\ MUFrame

\* the user enters a fit order
mu_set_fit_order(value) ==
    /\ widget = "MurnaghanWidget"
    /\ value # mu_widget.fit_order
    /\ mu_widget' = [mu_widget EXCEPT !.fit_order = value,
                                      !.fitted = None, !.plotted = FALSE,
                                      !.op = "set_fit_order"]
    /\ MUFrame

\* _update_box: parse the option widgets, fit if the chain says so, plot.
\* A fit stores its type on the job; a polynomial fit stores its order, any
\* other fit stores the order `stored`.
update_box(w, stored) ==
    LET options == [fit_type |-> w.fit_type, fit_order |-> w.fit_order]
        fit == needs_fit(options, w.input)
    IN [w EXCEPT !.options = options,
                 !.pre = w.input,
                 !.fitted = IF fit THEN fit_method(options.fit_type) ELSE None,
                 !.input = IF ~fit THEN w.input
                           ELSE [fit_type |-> options.fit_type,
                                 fit_order |-> IF options.fit_type = "polynomial"
                                               THEN options.fit_order ELSE stored],
                 !.plotted = TRUE]

\* refresh (_on_click_apply_button, gui): _update_header, then _update_box
mu_refresh ==
    /\ widget = "MurnaghanWidget"
    /\ \E stored \in fit_orders :
          mu_widget' = [update_box(mu_widget, stored) EXCEPT
                           !.header = <<"options", "Apply">>, !.op = "refresh"]
    /\ MUFrame

MUNext ==
    \/ \E value \in fit_types : mu_select_fit_type(value)
    \/ \E value \in fit_orders : mu_set_fit_order(value)
    \/ mu_refresh


\* ---- AtomsWidget: every render makes a new NGL view
MaxViews == 4
MaxOrient == 2

\* get_state()["_camera_orientation"]: [] until the front end reports the
\* camera, then 16 numbers (val names which)
NoOrientation == [len |-> 0, val |-> 0]

orientations == {[len |-> 16, val |-> v] : v \in 1..MaxOrient}

\* what plot3d returns: a view nobody has oriented
plot3d(id) == [id |-> id, orientation |-> NoOrientation, oriented |-> NoOrientation]

\* _update_ngl_widget without the test of reset_view
update_ngl_widget_keep_view(w, synced) ==
    LET orient == IF w.ngl # NoObject THEN w.ngl.orientation ELSE NoOrientation
        view == plot3d(w.views + 1)
    IN [w EXCEPT !.options = [reset_view |-> w.reset_view],
                 !.prev = w.ngl,
                 !.views = w.views + 1,
                 !.ngl = IF orient.len = 16
                         THEN [view EXCEPT !.oriented = orient,
                                           !.orientation = IF synced THEN orient
                                                           ELSE NoOrientation]
                         ELSE view]

\* _update_ngl_widget: parse the options, take the orientation of the view
\* there is, make a new view, orient it unless reset_view is checked or the
\* orientation has not 16 numbers. control.orient hands the orientation to the
\* front end; synced says whether the view's state already shows it.
update_ngl_widget(w, synced) ==
    LET orient == IF w.ngl # NoObject THEN w.ngl.orientation ELSE NoOrientation
        view == plot3d(w.views + 1)
    IN [w EXCEPT !.options = [reset_view |-> w.reset_view],
                 !.prev = w.ngl,
                 !.views = w.views + 1,
                 !.ngl = IF ~w.reset_view /\ orient.len = 16
                         THEN [view EXCEPT !.oriented = orient,
                                           !.orientation = IF synced THEN orient
                                                           ELSE NoOrientation]
                         ELSE view]

\* AtomsWidget.__init__: reset_view unchecked; _init_option_widgets ends with
\* refresh, which makes the first view
AtomsWidget ==
    [update_ngl_widget([reset_view |-> FALSE, options |-> [reset_view |-> FALSE],
                        ngl |-> NoObject, prev |-> NoObject, views |-> 0,
                        header |-> <<>>, op |-> "init"], FALSE)
     EXCEPT !.header = <<"options", "Apply">>]

ATInit ==
    /\ widget = "AtomsWidget"
    /\ at_widget = AtomsWidget
    /\ np_widget = NoObject
    /\ mu_widget = NoObject
    /\ fd_widget = NoObject
    /\ wrapper = NoObject
    /\ mp = NoObject
    /\ pl = NoObject

ATFrame == WFrame /\ UNCHANGED <<np_widget, mu_widget, fd_widget, wrapper>>

\* the user checks or unchecks 'reset view'
at_set_reset_view(value) ==
    /\ widget = "AtomsWidget"
    /\ value # at_widget.reset_view
    /\ at_widget' = [at_widget EXCEPT !.reset_view = value, !.op = "set_reset_view"]
    /\ ATFrame

\* the front end reports the camera of the view shown: the user turned the
\* structure, or the view was displayed
at_camera_moved(orient) ==
    /\ widget = "AtomsWidget"
    /\ orient # at_widget.ngl.orientation
    /\ at_widget' = [at_widget EXCEPT !.ngl.orientation = orient, !.op = "camera_moved"]
    /\ ATFrame

\* refresh (_on_click_apply_button, gui): _update_header, then _update_box
at_refresh ==
    /\ widget = "AtomsWidget"
    /\ at_widget.views < MaxViews
    /\ \E synced \in BOOLEAN :
          at_widget' = [update_ngl_widget(at_widget, synced) EXCEPT
                           !.header = <<"options", "Apply">>, !.op = "refresh"]
    /\ ATFrame

ATNext ==
    \/ \E value \in BOOLEAN : at_set_reset_view(value)
    \/ \E orient \in orientations : at_camera_moved(orient)
    \/ at_refresh

\* ---- FileDataWidget: the data of a file is loaded when it is first shown
MaxFetch == 3

\* what self._obj.data returns: nothing, a plain value, or an object with groups
data_kinds == {"None", "value", "HasGroups"}

\* Button.on_click(callback, remove) of ipywidgets: the callback is taken off
\* the button's click handlers when remove is true and appended otherwise
on_click(handlers, callback, remove) ==
    IF remove THEN SelectSeq(handlers, LAMBDA h : h # callback)
    ELSE IF callback \in SeqToSet(handlers) THEN handlers
    ELSE Append(handlers, callback)

\* the _data property without the test of the cache
fd_data_uncached(w) ==
    LET has_groups == w.source = "HasGroups"
    IN [w EXCEPT !.data_ = w.source,
                 !.fetches = w.fetches + 1,
                 !.data_has_groups = has_groups,
                 !.fetch_calls = IF has_groups /\ w.auto_callback /\ w.callback # None
                           THEN w.fetch_calls + 1 ELSE w.fetch_calls,
                 !.raised = IF has_groups /\ w.auto_callback /\ w.callback = None
                            THEN "TypeError" ELSE None,
                 !.header = IF has_groups /\ ~w.auto_callback
                            THEN <<"Show metadata", "Show data", "Load job">>
                            ELSE w.header,
                 !.load_handlers = IF has_groups /\ ~w.auto_callback
                                   THEN on_click(<<>>, "_load_and_callback", TRUE)
                                   ELSE w.load_handlers,
                 !.load_disabled = IF has_groups /\ ~w.auto_callback
                                   THEN FALSE ELSE w.load_disabled]

\* the _data property: while _data_ is None take self._obj.data; if it has
\* groups call the callback (automatic) or put a 'Load job' button in the header
fd_data(w) ==
    IF w.data_ # None THEN [w EXCEPT !.raised = None]
    ELSE LET has_groups == w.source = "HasGroups" \/ w.data_has_groups
         IN [w EXCEPT !.data_ = w.source,
                      !.fetches = w.fetches + 1,
                      !.data_has_groups = has_groups,
                      !.fetch_calls = IF has_groups /\ w.auto_callback /\ w.callback # None
                                THEN w.fetch_calls + 1 ELSE w.fetch_calls,
                      !.raised = IF has_groups /\ w.auto_callback /\ w.callback = None
                                 THEN "TypeError" ELSE None,
                      !.header = IF has_groups /\ ~w.auto_callback
                                 THEN <<"Show metadata", "Show data", "Load job">>
                                 ELSE w.header,
                      !.load_handlers = IF has_groups /\ ~w.auto_callback
                                        THEN on_click(<<>>, "_load_and_callback", TRUE)
                                        ELSE w.load_handlers,
                      !.load_disabled = IF has_groups /\ ~w.auto_callback
                                        THEN FALSE ELSE w.load_disabled]

\* _show_metadata: the metadata is displayed; the data is not touched
show_metadata(w) ==
    [w EXCEPT !.shown = "metadata", !.show_data_disabled = FALSE,
              !.show_metadata_disabled = TRUE, !.raised = None]

\* _show_data: clear the output, display self._data, swap the buttons.
\* DisplayOutputGUI.display raises TypeError for None inside the output
\* context; captured says whether the output swallowed it.
show_data(w, captured) ==
    LET f == fd_data(w)
    IN IF f.raised # None THEN [f EXCEPT !.shown = ""]
       ELSE IF f.data_ = None /\ ~captured
       THEN [f EXCEPT !.shown = "", !.raised = "TypeError"]
       ELSE [f EXCEPT !.shown = IF f.data_ = None THEN "TypeError" ELSE "data",
                      !.show_data_disabled = TRUE,
                      !.show_metadata_disabled = FALSE]

\* FileDataWidget.__init__: the header with the two buttons, the metadata
\* shown, no data
FileDataWidget(source, callback, auto_callback) ==
    show_metadata([source |-> source, callback |-> callback,
                   auto_callback |-> auto_callback,
                   data_ |-> None, data_has_groups |-> FALSE,
                   fetches |-> 0, fetch_calls |-> 0, data_shown |-> FALSE,
                   load_handlers |-> <<>>, load_disabled |-> FALSE,
                   load_calls |-> 0, load_arg |-> None,
                   header |-> <<"Show metadata", "Show data">>,
                   shown |-> "", show_data_disabled |-> FALSE,
                   show_metadata_disabled |-> FALSE, raised |-> None, op |-> "init"])

FDInit ==
    /\ widget = "FileDataWidget"
    /\ \E source \in data_kinds, callback \in {None, "callable"}, auto \in BOOLEAN :
          fd_widget = FileDataWidget(source, callback, auto)
    /\ np_widget = NoObject
    /\ mu_widget = NoObject
    /\ at_widget = NoObject
    /\ wrapper = NoObject
    /\ mp = NoObject
    /\ pl = NoObject

FDFrame == WFrame /\ UNCHANGED <<np_widget, mu_widget, at_widget, wrapper>>

\* a click on 'Show data'
fd_show_data ==
    /\ widget = "FileDataWidget"
    /\ ~fd_widget.show_data_disabled
    /\ fd_widget.fetches < MaxFetch
    /\ \E captured \in BOOLEAN :
          fd_widget' = [show_data(fd_widget, captured) EXCEPT !.data_shown = TRUE,
                                                              !.op = "show_data"]
    /\ FDFrame

\* a click on 'Show metadata'
fd_show_metadata ==
    /\ widget = "FileDataWidget"
    /\ ~fd_widget.show_metadata_disabled
    /\ fd_widget' = [show_metadata(fd_widget) EXCEPT !.op = "show_metadata"]
    /\ FDFrame

\* _load_and_callback(button): the callback gets self._data, or the button
\* is disabled when there is no callable callback
load_and_callback(w, button) ==
    IF w.callback # None
    THEN LET f == fd_data(w)
         IN [f EXCEPT !.load_calls = f.load_calls + 1, !.load_arg = f.data_]
    ELSE IF button # None THEN [w EXCEPT !.load_disabled = TRUE]
    ELSE w

\* the handlers of a clicked button run in turn with the button
RECURSIVE run_click_handlers(_, _)
run_click_handlers(w, handlers) ==
    IF handlers = <<>> THEN w
    ELSE run_click_handlers(load_and_callback(w, "Load job"), Tail(handlers))

\* a click on 'Load job' (a disabled button takes no click)
fd_click_load_job ==
    /\ widget = "FileDataWidget"
    /\ "Load job" \in SeqToSet(fd_widget.header)
    /\ ~fd_widget.load_disabled
    /\ fd_widget.load_calls < MaxFetch
    /\ fd_widget' = [run_click_handlers(fd_widget, fd_widget.load_handlers) EXCEPT
                        !.op = "click_load_job"]
    /\ FDFrame

\* _load_and_callback called as a method once the button is there, with the
\* button or without
fd_load_and_callback(button) ==
    /\ widget = "FileDataWidget"
    /\ "Load job" \in SeqToSet(fd_widget.header)
    /\ fd_widget.load_calls < MaxFetch
    /\ fd_widget' = [load_and_callback(fd_widget, button) EXCEPT !.op = "_load_and_callback"]
    /\ FDFrame

FDNext ==
    \/ fd_show_data
    \/ fd_show_metadata
    \/ fd_click_load_job
    \/ \E button \in {None, "Load job"} : fd_load_and_callback(button)

\* ---- PyironWrapper: a singledispatch function on the class of py_obj
\* the values handed to PyironWrapper: their class and its method resolution order
py_objs ==
    {[kind |-> "Atoms", mro |-> <<"Atoms", "object">>],
     [kind |-> "AtomsSubclass", mro |-> <<"AtomsSubclass", "Atoms", "object">>],
     [kind |-> "Murnaghan", mro |-> <<"Murnaghan", "GenericJob", "object">>],
     [kind |-> "GenericJob", mro |-> <<"GenericJob", "object">>],
     [kind |-> "str", mro |-> <<"str", "object">>],
     [kind |-> "ndarray", mro |-> <<"ndarray", "object">>],
     [kind |-> "NoneType", mro |-> <<"NoneType", "object">>],
     [kind |-> "BaseWrapper", mro |-> <<"BaseWrapper", "HasGroups", "object">>]}

\* PyironWrapper.registry: the default for object and the two registrations
registry ==
    [cls \in {"object", "Atoms", "Murnaghan"} |->
        CASE cls = "Atoms" -> "AtomsWrapper"
          [] cls = "Murnaghan" -> "MurnaghanWrapper"
          [] OTHER -> "BaseWrapper"]

\* a dispatch that knows the default only
dispatch_default(mro) == registry["object"]

\* singledispatch: the implementation registered for the first class of the
\* method resolution order that has one
RECURSIVE dispatch(_)
dispatch(mro) ==
    IF mro = <<>> THEN "TypeError"
    ELSE IF Head(mro) \in DOMAIN registry THEN registry[Head(mro)]
    ELSE dispatch(Tail(mro))

\* BaseWrapper.__init__, AtomsWrapper.__init__, MurnaghanWrapper.__init__
new_wrapper(class, pyi_obj, project, rel_path) ==
    [class |-> class, _wrapped_object |-> pyi_obj, _project |-> project,
     _rel_path |-> rel_path,
     _name |-> CASE class = "AtomsWrapper" -> "structure"
                 [] class = "MurnaghanWrapper" -> "murnaghan"
                 [] OTHER -> None]

PyironWrapper(py_obj, project, rel_path) ==
    new_wrapper(dispatch(py_obj.mro), py_obj, project, rel_path)

PWInit ==
    /\ widget = "PyironWrapper"
    /\ wrapper = NoObject
    /\ mp = NoObject
    /\ pl = NoObject
    /\ np_widget = NoObject
    /\ mu_widget = NoObject
    /\ at_widget = NoObject
    /\ fd_widget = NoObject

PWFrame == WFrame /\ UNCHANGED <<np_widget, mu_widget, at_widget, fd_widget>>

\* a call PyironWrapper(py_obj, project, rel_path) with the project of the
\* browser
pw_call(py_obj, rel_path) ==
    /\ widget = "PyironWrapper"
    /\ wrapper' = PyironWrapper(py_obj, pb_project, rel_path)
    /\ wrapper' # wrapper
    /\ PWFrame

PWNext ==
    \/ \E py_obj \in py_objs, rel_path \in {"", "sub"} : pw_call(py_obj, rel_path)

\* ------------------------------------------------------------------------
\* safe_monkey_patch (src/pyiron_gui/monkey_patching.py)
\* ------------------------------------------------------------------------
\* the class has no such attribute
Absent == [type |-> "absent", module |-> "", name |-> ""]

\* a function, or the getter of a property, defined as `name` in `module`
function(module, name) == [type |-> "function", module |-> module, name |-> name]

property(fget) == [type |-> "property", module |-> fget.module, name |-> fget.name]

\* a callable object that is no function (a functools.partial): it has a
\* __module__ and no __name__
partial == [type |-> "partial", module |-> "functools", name |-> ""]

\* values that are neither callable nor a property
py_None == [type |-> "NoneType", module |-> "", name |-> ""]

py_str(val) == [type |-> "str", module |-> "", name |-> val]

\* the attribute names of the class: the patched one and its companion
AttrNames == {"any", "v"}

\* what is handed to safe_monkey_patch as func_or_property
FuncOrProperty ==
    {function("tests", "to_be_applied"), function("tests", "not_to_be_applied"),
     function("other", "to_be_applied"),
     property(function("tests", "to_be_applied")),
     property(function("tests", "not_to_be_applied")),
     partial, py_str("text")}

AttrVals == {py_None, py_str("Should not be stored")}

callable(obj) == obj.type \in {"function", "partial"}

\* obj.__name__ exists
has_name(obj) == obj.type = "function"

\* obj.__module__ exists
has_module(obj) == obj.type \in {"function", "partial"}

patch_result(attrs, warned, raised, success) ==
    [attrs |-> attrs, warned |-> warned, raised |-> raised, success |-> success]

\* _safe_monkey_patch_method that sets the attribute whatever is there
safe_monkey_patch_method_overwrite(attrs, method_name, func) ==
    patch_result([attrs EXCEPT ![method_name] = func], 0, None, TRUE)

\* (a patch that refuses every attribute the class already has)
safe_monkey_patch_method_once(attrs, method_name, func) ==
    IF attrs[method_name] = Absent \/ attrs[method_name] = py_None
    THEN patch_result([attrs EXCEPT ![method_name] = func], 0, None, TRUE)
    ELSE patch_result(attrs, 1, None, FALSE)

\* _safe_monkey_patch_method: getattr(cls, method_name, None); an attribute of
\* another module or name is kept and warned about, anything else is set.
\* `or` evaluates method.__name__ only if the modules are equal; the message
\* of the warning names both __module__ and both __name__.
safe_monkey_patch_method(attrs, method_name, func) ==
    LET method == attrs[method_name]
    IN IF method = Absent \/ method = py_None
       THEN patch_result([attrs EXCEPT ![method_name] = func], 0, None, TRUE)
       ELSE IF ~has_module(method) \/ ~has_module(func)
       THEN patch_result(attrs, 0, "AttributeError", FALSE)
       ELSE IF method.module # func.module
       THEN IF has_name(method) /\ has_name(func)
            THEN patch_result(attrs, 1, None, FALSE)
            ELSE patch_result(attrs, 0, "AttributeError", FALSE)
       ELSE IF ~has_name(method) \/ ~has_name(func)
       THEN patch_result(attrs, 0, "AttributeError", FALSE)
       ELSE IF method.name # func.name
       THEN patch_result(attrs, 1, None, FALSE)
       ELSE patch_result([attrs EXCEPT ![method_name] = func], 0, None, TRUE)

\* _safe_monkey_patch_property: the getters are compared; the message of the
\* warning reads method.__module__ of the property there is, which a property
\* has not
safe_monkey_patch_property(attrs, property_name, prop) ==
    LET method == attrs[property_name]
    IN IF method = Absent \/ method = py_None
       THEN patch_result([attrs EXCEPT ![property_name] = prop], 0, None, TRUE)
       ELSE IF method.type # "property"
       THEN patch_result(attrs, 0, "AttributeError", FALSE)
       ELSE IF method.module # prop.module \/ method.name # prop.name
       THEN patch_result(attrs, 0, "AttributeError", FALSE)
       ELSE patch_result([attrs EXCEPT ![property_name] = prop], 0, None, TRUE)

\* setattr(cls, attr_name, attr_val) after a patch that succeeded
set_companion(r, attr_name, attr_val) ==
    IF r.success /\ attr_name # None
    THEN [r EXCEPT !.attrs = [r.attrs EXCEPT ![attr_name] = attr_val]]
    ELSE r

\* safe_monkey_patch: an attribute of another type is kept and warned about;
\* a callable goes to _safe_monkey_patch_method, a property to
\* _safe_monkey_patch_property, anything else is warned about
safe_monkey_patch(attrs, func_or_property_name, func_or_property, attr_name, attr_val) ==
    LET attribute_or_bound_method == attrs[func_or_property_name]
    IN IF /\ attribute_or_bound_method # Absent
          /\ func_or_property.type # attribute_or_bound_method.type
       THEN patch_result(attrs, 1, None, FALSE)
       ELSE IF callable(func_or_property)
       THEN set_companion(safe_monkey_patch_method(attrs, func_or_property_name,
                                                   func_or_property),
                          attr_name, attr_val)
       ELSE IF func_or_property.type = "property"
       THEN set_companion(safe_monkey_patch_property(attrs, func_or_property_name,
                                                     func_or_property),
                          attr_name, attr_val)
       ELSE patch_result(attrs, 1, None, FALSE)

\* class ToBePatched: pass
ToBePatched == [a \in AttrNames |-> Absent]

MPInit ==
    /\ widget = None
    /\ np_widget = NoObject
    /\ mu_widget = NoObject
    /\ at_widget = NoObject
    /\ fd_widget = NoObject
    /\ wrapper = NoObject
    /\ mp = [attrs |-> ToBePatched, pre |-> ToBePatched, args |-> NoObject,
             warned |-> 0, raised |-> None, repeat |-> FALSE, op |-> "init"]
    /\ pl = NoObject

MPFrame == UNCHANGED <<hvars, browser, pbvars, dcvars, bcvars, widget, np_widget,
                       mu_widget, at_widget, fd_widget, wrapper, pl>>

\* a call safe_monkey_patch(ToBePatched, 'any', func_or_property, attr_name,
\* attr_val); repeat: the call before had the same arguments and went through
\* without a warning or an error
mp_safe_monkey_patch(func_or_property, attr_name, attr_val) ==
    /\ mp # NoObject
    /\ LET args == [name |-> "any", func_or_property |-> func_or_property,
                    attr_name |-> attr_name, attr_val |-> attr_val]
           r == safe_monkey_patch(mp.attrs, "any", func_or_property, attr_name, attr_val)
       IN mp' = [attrs |-> r.attrs, pre |-> mp.attrs, args |-> args,
                 warned |-> r.warned, raised |-> r.raised,
                 repeat |-> (mp.args = args /\ mp.warned = 0 /\ mp.raised = None),
                 op |-> "safe_monkey_patch"]
    /\ MPFrame

MPNext ==
    \/ \E func_or_property \in FuncOrProperty, attr_name \in {None, "v", "any"},
          attr_val \in AttrVals :
          mp_safe_monkey_patch(func_or_property, attr_name, attr_val)

\* ------------------------------------------------------------------------
\* _update_project called with an object (no string)
\* ------------------------------------------------------------------------
\* a value without list_nodes, list_groups and path, such as the int 5
pb_not_browsable == [kind |-> "int", path |-> <<>>]

\* the same where the key of the current container is kept
dc_not_browsable == <<"int">>

\* the browser shows a position it can list
pb_listable == pb_project # pb_not_browsable

dc_listable == dc_current # dc_not_browsable

\* ProjectBrowser._update_project(path) for a path that is no string: the
\* object becomes self._project, then the output is cleared and refresh runs;
\* refresh sets _node_as_dirs and raises AttributeError at
\* self.project.list_nodes() for an object that has none
pb_update_project_object(value) ==
    /\ browser = "ProjectBrowser"
    /\ pb_listable
    /\ pb_project' = value
    /\ pb_node_as_dirs' = refresh_node_as_dirs(pb_node_as_dirs, value)
    /\ pb_op' = "_update_project" /\ pb_arg' = "object"
    /\ IF value = pb_not_browsable
       THEN pb_msg' = "AttributeError" /\ UNCHANGED pb_home
       ELSE pb_msg' = "" /\ pb_home' = pb_initial_project
    /\ PBFrame
    /\ UNCHANGED <<pb_fix_path, pb_show_files, pb_clickedFiles, pb_data>>

\* DataContainerBrowser._update_project(path) for a path that is no string:
\* the object becomes the current container and the path '', then refresh
\* raises AttributeError at self.data_container.list_nodes() for an object
\* that has none
dc_update_project_object(value) ==
    /\ browser = "DataContainerBrowser"
    /\ dc_listable
    /\ dc_current' = value
    /\ dc_path' = <<"">>
    /\ dc_op' = "_update_project" /\ dc_arg' = "object"
    /\ dc_msg' = IF value = dc_not_browsable THEN "AttributeError" ELSE ""
    /\ DCFrame
    /\ UNCHANGED <<dc_clicked_data, dc_data, dc_busy>>

\* ------------------------------------------------------------------------
\* Specifications
\* ------------------------------------------------------------------------
\* the history engine alone
InitHistory ==
    /\ HInit
    /\ BCConstruct
    /\ NoWidget
    /\ browser = "HasGroupsBrowser"
    /\ PBConstruct(FALSE, TRUE)
    /\ DCConstruct

SpecHistory == InitHistory /\ [][HNext]_vars

\* the path-tracking variant, moved by enter_group and the history operations
HNextPath ==
    \/ \E name \in Names : enter_group(name)
    \/ go_back
    \/ go_forward
    \/ \E index \in -1 .. MaxHist : jump(index)
    \/ \E name \in Names : select_leaf(name)
    \/ reset_selection
    \/ \E b \in BOOLEAN : set_locked(b)

SpecHistoryPath == InitHistory /\ [][HNextPath]_vars

\* a session drives one browser of the source files
Init ==
    /\ HInit
    /\ BCConstruct
    /\ NoWidget
    /\ \/ browser = "ProjectBrowser" /\ PBInit /\ DCConstruct
       \/ browser = "DataContainerBrowser" /\ PBConstruct(FALSE, TRUE) /\ DCConstruct

Next == PBNext \/ DCNext

Spec == Init /\ [][Next]_vars

\* a session with a browser and its copy
NextCopy == PBNextCopy \/ DCNextCopy

SpecCopy == Init /\ [][NextCopy]_vars

\* the busy guards: _BusyCheck, or a DataContainerBrowser whose _busy_check is
\* also called from outside
InitBusy ==
    /\ HInit
    /\ BCConstruct
    /\ NoWidget
    /\ PBConstruct(FALSE, TRUE)
    /\ DCConstruct
    /\ browser \in {"_BusyCheck", "DataContainerBrowser"}

NextBusy ==
    \/ BCNext
    \/ DCNext
    \/ \E busy \in BOOLEAN : dc_busy_check(busy)

SpecBusy == InitBusy /\ [][NextBusy]_vars

\* the guard of utils in a session in which widgets are also closed
InitClose ==
    /\ HInit
    /\ BCConstruct
    /\ NoWidget
    /\ PBConstruct(FALSE, TRUE)
    /\ DCConstruct
    /\ browser = "_BusyCheck"

NextClose ==
    \/ BCNext
    \/ \E key \in WidgetKeys : bc_close_widget(key)

SpecClose == InitClose /\ [][NextClose]_vars

\* a session that drives one widget of wrapper.py
InitWrapper ==
    /\ HInit
    /\ BCConstruct
    /\ PBConstruct(FALSE, TRUE)
    /\ DCConstruct
    /\ browser = None
    /\ \/ NPInit
       \/ MUInit
       \/ ATInit
       \/ FDInit
       \/ PWInit

NextWrapper ==
    \/ NPNext
    \/ MUNext
    \/ ATNext
    \/ FDNext
    \/ PWNext

SpecWrapper == InitWrapper /\ [][NextWrapper]_vars

\* a session that patches a class
InitPatch ==
    /\ HInit
    /\ BCConstruct
    /\ PBConstruct(FALSE, TRUE)
    /\ DCConstruct
    /\ browser = None
    /\ MPInit

NextPatch ==
    \/ MPNext

SpecPatch == InitPatch /\ [][NextPatch]_vars

\* a session in which _update_project is also called with objects; once the
\* position is an object that cannot be listed every event raises
InitAssign ==
    /\ HInit
    /\ BCConstruct
    /\ NoWidget
    /\ \/ browser = "ProjectBrowser" /\ PBInit /\ DCConstruct
       \/ browser = "DataContainerBrowser" /\ PBConstruct(FALSE, TRUE) /\ DCConstruct

NextAssign ==
    \/ pb_listable /\ PBNext
    \/ dc_listable /\ DCNext
    \/ \E value \in PBPositions \cup {pb_not_browsable} : pb_update_project_object(value)
    \/ \E value \in {<<>>, <<"B">>, dc_not_browsable} : dc_update_project_object(value)

SpecAssign == InitAssign /\ [][NextAssign]_vars

\* ------------------------------------------------------------------------
\* _gen_pathbox_path_list on path strings (SpecPathList)
\* ------------------------------------------------------------------------
\* A path string is the sequence of its pieces between slashes, as
\* str.split('/') gives them: '/' is <<"", "">>, '/some/path/' is
\* <<"", "some", "path", "">> and '' is <<"">>.
MaxSegs == 4

PathSegments == {"", "some", "path"}

\* the absolute path strings of at most MaxSegs pieces
AbsPathStrings ==
    {p \in UNION {[1 .. k -> PathSegments] : k \in 2 .. MaxSegs} : p[1] = ""}

\* the values of DataContainerBrowser._path: '' or a key without empty pieces
DCPathStrings ==
    {p \in UNION {[1 .. k -> PathSegments] : k \in 1 .. MaxSegs - 1} :
        p = <<"">> \/ \A i \in 1 .. Len(p) : p[i] # ""}

\* s[-1] == '/'
ends_with_slash(s) == Len(s) >= 2 /\ s[Len(s)] = ""

\* s[:-1] of a string that ends with a slash
strip_last_slash(s) == SubSeq(s, 1, Len(s) - 1)

\* s + '/'
add_slash(s) == Append(s, "")

\* head.rstrip('/')
RECURSIVE rstrip_slashes(_)
rstrip_slashes(s) ==
    IF ends_with_slash(s) THEN rstrip_slashes(strip_last_slash(s)) ELSE s

\* os.path.split(p)[0]: all up to the last slash, without trailing slashes
\* unless it consists of slashes only
os_path_split_head(p) ==
    LET head == IF Len(p) = 1 THEN <<"">> ELSE Append(SubSeq(p, 1, Len(p) - 1), "")
    IN IF \E i \in 1 .. Len(head) : head[i] # "" THEN rstrip_slashes(head) ELSE head

\* os.path.abspath of an absolute path: normpath keeps exactly two leading
\* slashes and joins the components that remain
os_path_abspath(p) ==
    LET comps == normpath(SelectSeq(p, LAMBDA comp : comp # ""))
        two == /\ Len(p) >= 3 /\ p[1] = "" /\ p[2] = ""
               /\ ~(Len(p) >= 4 /\ p[3] = "")
        initial_slashes == IF two THEN <<"", "">> ELSE <<"">>
    IN IF comps = <<>> THEN Append(initial_slashes, "") ELSE initial_slashes \o comps

PLFrame == UNCHANGED <<hvars, browser, pbvars, dcvars, bcvars, widget, np_widget,
                       mu_widget, at_widget, fd_widget, wrapper, mp>>

\* the list reversed
reverse(list) == [i \in 1 .. Len(list) |-> list[Len(list) + 1 - i]]

\* the lines of _gen_pathbox_path_list before the loop
pl_enter(cls, path, tmppath) ==
    LET stripped == IF ends_with_slash(tmppath) THEN strip_last_slash(tmppath) ELSE tmppath
    IN /\ \/ pl = NoObject
          \/ pl # NoObject /\ pl.pc = "done"
       /\ pl' = [cls |-> cls, path |-> path, tmppath |-> stripped,
                 tmppath_old |-> add_slash(stripped), path_list |-> <<>>, pc |-> "while"]
       /\ PLFrame

\* ProjectBrowser._gen_pathbox_path_list with self.path = path
pb_gen_pathbox_path_list_call(path) ==
    pl_enter("ProjectBrowser", path, os_path_abspath(path))

\* DataContainerBrowser._gen_pathbox_path_list with self._path = path
dc_gen_pathbox_path_list_call(path) ==
    pl_enter("DataContainerBrowser", abs_path(path), abs_path(path))

\* one pass through the body of the while loop
pl_while ==
    /\ pl # NoObject /\ pl.pc = "while"
    /\ pl.tmppath # pl.tmppath_old
    /\ pl' = [pl EXCEPT !.tmppath_old = pl.tmppath,
                        !.tmppath = os_path_split_head(pl.tmppath),
                        !.path_list = Append(pl.path_list, pl.tmppath)]
    /\ PLFrame

\* the loop ends: path_list.reverse(); return path_list
pl_return ==
    /\ pl # NoObject /\ pl.pc = "while"
    /\ pl.tmppath = pl.tmppath_old
    /\ pl' = [pl EXCEPT !.path_list = reverse(pl.path_list), !.pc = "done"]
    /\ PLFrame

InitPathList ==
    /\ HInit
    /\ BCConstruct
    /\ NoWidget
    /\ PBConstruct(FALSE, TRUE)
    /\ DCConstruct
    /\ browser = None

NextPathList ==
    \/ \E path \in AbsPathStrings : pb_gen_pathbox_path_list_call(path)
    \/ \E path \in DCPathStrings : dc_gen_pathbox_path_list_call(path)
    \/ pl_while
    \/ pl_return

SpecPathList == InitPathList /\ [][NextPathList]_vars

\* the interpreter goes on with a call that has begun
SpecPathListFair == SpecPathList /\ WF_vars(pl_while \/ pl_return)

\* ------------------------------------------------------------------------
\* Properties of the History Ledger and Navigation Engine (SpecHistory)
\* ------------------------------------------------------------------------
HCore == <<entries, cursor, current, selected_leaf, locked>>

\* C1: truncate-on-branch.  When enter_group succeeds while the cursor is
\* behind the last entry, every entry after the cursor is discarded and the
\* new position appended: the ledger is then cursor+2 long, the cursor is on
\* its last entry, which is the new current position, the entries up to the
\* old cursor are unchanged, and go_forward fails with AtEnd.
C1_TruncateOnBranch ==
    [][/\ (h_op' = "enter_group" /\ h_err' = None /\ cursor < Len(entries) - 1) =>
            /\ Len(entries') = cursor + 2
            /\ cursor' = Len(entries') - 1
            /\ SubSeq(entries', 1, cursor + 1) = SubSeq(entries, 1, cursor + 1)
            /\ entries'[Len(entries')] = current'
            /\ h_dropped' = Len(entries) - 1 - cursor
            /\ go_forward_error(entries', cursor') = "AtEnd"
       /\ (h_op = "enter_group" /\ h_err = None /\ h_op' = "go_forward") =>
            /\ h_err' = "AtEnd"
            /\ UNCHANGED HCore
      ]_vars

\* the tests' example: history [R, B, B1], go_back, enter B2 gives [R, B, B2]
C1_Witness ==
    /\ h_op = "enter_group" /\ h_err = None /\ h_dropped = 1
    /\ entries = <<[root |-> "dc", path |-> <<>>], [root |-> "dc", path |-> <<"B">>],
                   [root |-> "dc", path |-> <<"B", "B2">>]>>
    /\ cursor = 2

\* C2: in every reachable state 0 <= cursor < len(entries) and the current
\* position is the Browsable recorded at entries[cursor].
C2_CursorInvariant ==
    /\ cursor \in 0 .. Len(entries) - 1
    /\ current = entries[cursor + 1]
    /\ IsBrowsable(current)

C2_Witness ==
    /\ h_op \in {"go_back", "jump"} /\ h_err = None
    /\ cursor = 1 /\ Len(entries) = MaxHist
    /\ entries[1].root # entries[2].root

\* C3: round trip.  After n successful enter_group calls followed by k <= n
\* go_back calls the current position is the one that was current after the
\* first n-k enter_group calls.
C3_RoundTrip ==
    /\ h_backs < Len(h_trail)
    /\ current = h_trail[Len(h_trail) - h_backs]

C3_Witness == Len(h_trail) = 4 /\ h_backs = 2 /\ h_op = "go_back" /\ h_err = None

C5_BoundsRejected ==
    [][/\ (h_op' = "go_back" /\ cursor = 0 /\ ~locked) =>
            (h_err' = "AtStart" /\ UNCHANGED HCore)
       /\ (h_op' = "go_forward" /\ cursor = Len(entries) - 1 /\ ~locked) =>
            (h_err' = "AtEnd" /\ UNCHANGED HCore)
       /\ (h_op' = "jump" /\ h_err' = None) =>
            (cursor' \in 0 .. Len(entries) - 1 /\ UNCHANGED entries)
       /\ (h_err' \in {"AtStart", "AtEnd", "OutOfRange"}) => UNCHANGED HCore
      ]_vars

C5_Witness ==
    /\ h_op = "jump" /\ h_err = "OutOfRange"
    /\ selected_leaf # None /\ Len(entries) > 1 /\ cursor > 0

\* ------------------------------------------------------------------------
\* Selection and locking in ProjectBrowser and DataContainerBrowser
\* ------------------------------------------------------------------------
\* the events of the ProjectBrowser that ask for another position
PBNavigationEvents == {"on_click_group", "path_button", "home", "set_path"}

DCNavigationEvents == {"on_click_group", "path_button", "home", "set_path"}

\* the path _on_click_file files the clicked name under
pb_filepath == Append(pb_project.path, pb_arg)

dc_filepath == dc_join(dc_path, dc_arg)

\* the last two events of the ProjectBrowser selected the leaf pb_arg and
\* clicked it again
pb_clicked_twice ==
    /\ browser = "ProjectBrowser"
    /\ pb_op = "on_click_file" /\ pb_pre.op = "on_click_file" /\ pb_pre.arg = pb_arg
    /\ pb_filepath \in SeqToSet(pb_pre.clickedFiles)

dc_clicked_twice ==
    /\ browser = "DataContainerBrowser"
    /\ dc_op = "on_click_file" /\ dc_pre.op = "on_click_file" /\ dc_pre.arg = dc_arg
    /\ dc_filepath \in SeqToSet(dc_pre.clicked_data)

\* C6: while fix_path is set, no group button, path button, home button or
\* Set Path click changes the current project.  on_click_group never looks
\* at fix_path, so a group click moves a locked browser: the formula is
\* violated.
C6_LockedKeepsPosition ==
    (browser = "ProjectBrowser" /\ pb_pre.fix_path /\ pb_op \in PBNavigationEvents)
        => pb_project = pb_pre.project

\* C7 as claimed: clicking the selected leaf X again, right after selecting
\* it, leaves no leaf selected and data None in both browsers.  Violated at a
\* wrapped object, where the data property falls back to the wrapped object.
C7_ToggleDataNone ==
    /\ pb_clicked_twice =>
          pb_clickedFiles = <<>> /\ pb_data_property(pb_project, pb_data) = NoObject
    /\ dc_clicked_twice =>
          dc_clicked_data = <<>> /\ dc_data_property(dc_data) = NoObject

\* C7, amended: clicking the selected leaf X again, right after selecting it,
\* leaves no leaf selected and no selected data; the data property is then
\* None, except that a ProjectBrowser standing at a wrapped object returns
\* the wrapped object.
C7_ToggleClearsSelection ==
    /\ pb_clicked_twice =>
          /\ pb_clickedFiles = <<>>
          /\ pb_data = NoObject
          /\ pb_data_property(pb_project, pb_data) =
                IF pb_project.kind = "Wrapper" THEN [wrapped_object |-> pb_project.path]
                ELSE NoObject
    /\ dc_clicked_twice =>
          /\ dc_clicked_data = <<>>
          /\ dc_data = NoObject
          /\ dc_data_property(dc_data) = NoObject

\* a node of a wrapped job has been selected and clicked again
C7_Witness == pb_clicked_twice /\ pb_project.kind = "Wrapper" /\ pb_pre.data # NoObject

\* C8: at most one leaf is selected in every reachable state, and clicking
\* a leaf Y while another leaf X is selected makes Y the only selected leaf
\* and data the value of Y.  A leaf of the ProjectBrowser whose fetch fails
\* keeps the data of X (the failure C9 is about): the formula is violated.
C8_SingleSelection ==
    /\ Len(pb_clickedFiles) <= 1
    /\ Len(dc_clicked_data) <= 1
    /\ (/\ browser = "ProjectBrowser" /\ pb_op = "on_click_file"
        /\ pb_arg \in SeqToSet(pb_file_buttons(pb_project, pb_show_files))
        /\ pb_pre.clickedFiles # <<>>
        /\ pb_filepath \notin SeqToSet(pb_pre.clickedFiles))
          => /\ pb_clickedFiles = <<pb_filepath>>
             /\ pb_data = FileData(pb_found(pb_project, [ups |-> 0, rest |-> <<pb_arg>>]),
                                   pb_arg, pb_filepath)
             /\ pb_found(pb_project, [ups |-> 0, rest |-> <<pb_arg>>]).kind # "None"
    /\ (/\ browser = "DataContainerBrowser" /\ dc_op = "on_click_file"
        /\ dc_arg \in SeqToSet(dc_list_nodes(dc_current))
        /\ dc_pre.clicked_data # <<>>
        /\ dc_filepath \notin SeqToSet(dc_pre.clicked_data))
          => /\ dc_clicked_data = <<dc_filepath>>
             /\ dc_data_property(dc_data) = dc_getitem(dc_current, <<dc_arg>>)
             /\ dc_data_property(dc_data).kind # "KeyError"

\* C9: after a click on a name whose fetch fails, no leaf is selected, data
\* is None and reading data raises nothing.  Both browsers record the name
\* as selected; the ProjectBrowser keeps the data selected before and the
\* DataContainerBrowser's data property raises KeyError: the formula is
\* violated.
C9_FailedFetchClearsSelection ==
    /\ (/\ browser = "ProjectBrowser" /\ pb_op = "on_click_file"
        /\ pb_fetch(pb_project, pb_arg) = NoObject)
          => /\ pb_clickedFiles = <<>>
             /\ pb_data_property(pb_project, pb_data) = NoObject
    /\ (/\ browser = "DataContainerBrowser" /\ dc_op = "on_click_file"
        /\ dc_getitem(dc_current, <<dc_arg>>).kind = "KeyError")
          => /\ dc_clicked_data = <<>>
             /\ dc_data_property(dc_data) = NoObject

\* C10: after an event that changed the current position no leaf is selected
\* and data does not return what was selected at the previous position.
\* _update_project touches neither _clickedFiles/_clicked_data nor _data:
\* the formula is violated.
C10_MoveClearsSelection ==
    /\ (/\ browser = "ProjectBrowser" /\ pb_op \in PBNavigationEvents
        /\ pb_project # pb_pre.project)
          => /\ pb_clickedFiles = <<>>
             /\ pb_pre.data # NoObject => pb_data_property(pb_project, pb_data) # pb_pre.data
    /\ (/\ browser = "DataContainerBrowser" /\ dc_op \in DCNavigationEvents
        /\ dc_path # dc_pre.path)
          => /\ dc_clicked_data = <<>>
             /\ dc_pre.data # NoObject => dc_data # dc_pre.data

\* ------------------------------------------------------------------------
\* Failed entries
\* ------------------------------------------------------------------------
\* the absolute path Set Path hands to _update_project
pb_set_path_target(value) == IF value.abs THEN value.segs ELSE pb_project.path \o value.segs

dc_set_path_target(value) == IF isabs(value) THEN value ELSE abs_path(dc_path) \o value

\* the lookup of path from the current project finds nothing, or a file or a
\* value, which have no list_nodes
pb_entry_fails(path) ==
    LET rel_path == relpath(path, pb_project.path)
    IN /\ ~IsDot(rel_path)
       /\ \A found \in pb_getitem(pb_project, rel_path) :
             found.kind \in {"None", "File", "Value"}

\* the key path names is absent from the container, or holds a value
dc_entry_fails(path) ==
    /\ ~(isabs(path) /\ normpath(path) = normpath(abs_path(dc_path)))
    /\ path \notin {<<"", "">>, <<"">>}
    /\ dc_getitem(<<>>, IF path[1] = "" THEN Tail(path) ELSE path).kind # "group"

pb_entry_unwrappable(path) ==
    LET rel_path == relpath(path, pb_project.path)
    IN /\ ~IsDot(rel_path)
       /\ \A found \in pb_getitem(pb_project, rel_path) : found.kind = "GenericParameters"

\* the events that enter the group or path named
pb_enters(path) ==
    \/ \E name \in SeqToSet(pb_dir_buttons(pb_project)) :
          path = Append(pb_project.path, name) /\ pb_on_click_group(name)
    \/ \E value \in PathBoxValues :
          /\ ~pb_fix_path /\ value.segs # <<>> /\ path = pb_set_path_target(value)
          /\ pb_click_set_path(value)

PBTargets ==
    {<<"pr", "testjob", "input">>, <<"pr", "testjob">>, <<"pr", "sub">>, <<"pr">>, <<>>}

C13_CopyKeepsPosition ==
    /\ (browser = "ProjectBrowser" /\ pb_op = "copy")
          => /\ pb_other.project = pb_project
             /\ pb_dir_buttons(pb_other.project) = pb_dir_buttons(pb_project)
             /\ pb_file_buttons(pb_other.project, pb_other.show_files) =
                   pb_file_buttons(pb_project, pb_show_files)
             /\ pb_other.fix_path = pb_fix_path
             /\ pb_other.show_files = pb_show_files
             /\ pb_other.hide_path = pb_hide_path
    /\ (browser = "DataContainerBrowser" /\ dc_op = "copy")
          => /\ dc_other.path = dc_path
             /\ dc_other.current = dc_current
             /\ dc_list_groups(dc_other.current) = dc_list_groups(dc_current)
             /\ dc_nodes(dc_other.current) = dc_nodes(dc_current)

C15_SharedContainer ==
    (/\ browser = "DataContainerBrowser" /\ dc_op = "set_data"
     /\ dc_other # NoObject /\ dc_other.data = dc_data)
        => dc_data_property(dc_other.data) =
              [kind |-> "value", key |-> dc_data.path, value |-> dc_arg]

\* both browsers have selected one node and one of them has written to it
C15_Witness ==
    /\ browser = "DataContainerBrowser" /\ dc_op = "set_data"
    /\ dc_other # NoObject /\ dc_other.data = dc_data /\ dc_data # NoObject
    /\ dc_arg = "v2"

\* ------------------------------------------------------------------------
\* The busy guards (SpecBusy)
\* ------------------------------------------------------------------------
\* the events of the DataContainerBrowser that go through a guarded handler
dc_guarded_event ==
    \/ \E name \in {"B", "C", "B1", "B2"} : dc_on_click_group(name)
    \/ \E value \in DCPathBoxValues : dc_click_set_path(value)
    \/ dc_click_reset_selection
    \/ \E path \in {<<"">>, <<"", "">>, <<"", "B">>, <<"", "B", "B1">>} :
           dc_click_path_button(path)
    \/ dc_click_home
    \/ \E filename \in SeqToSet(dc_nodes(dc_current)) : dc_on_click_file(filename)
    \/ dc_busy_check(TRUE)

\* C16: single flight.  A decorated function called while the guard is held
\* does not run its body, _busy_check() then returns True, and the guard is
\* still held and the buttons and their saved flags are as before; a click
\* that reaches a DataContainerBrowser while it is busy changes neither its
\* position nor its selection and leaves it busy.
C16_SingleFlight ==
    [][/\ (bc_busy /\ (bc_decorated_call \/ bc_call_busy_check(TRUE)))
             => /\ bc_ret' = "True" /\ bc_eff' = "rejected" /\ bc_busy'
                /\ UNCHANGED <<bc_depth, bc_widgets, bc_widget_state>>
       /\ (dc_busy /\ dc_guarded_event)
             => /\ dc_busy' /\ dc_op' = "rejected"
                /\ UNCHANGED <<dc_path, dc_current, dc_clicked_data, dc_data, dc_written>>
      ]_vars

\* a decorated function was called from the body of another and rejected
C16_Witness ==
    /\ browser = "_BusyCheck"
    /\ bc_op = "decorated" /\ bc_eff = "rejected" /\ bc_ret = "True"
    /\ bc_depth = 1 /\ bc_busy

\* a click arrived at a DataContainerBrowser whose guard was held
C16_WitnessBrowser ==
    /\ browser = "DataContainerBrowser"
    /\ dc_op = "rejected" /\ dc_busy /\ dc_pre.op = "_busy_check"

\* C17: the guard is released on every exit path: when a decorated function
\* has returned or raised the guard is free, and when a click handler of the
\* DataContainerBrowser has finished, by return or by an exception, the
\* browser is not busy.
C17_GuardReleased ==
    /\ (browser = "_BusyCheck" /\ bc_op \in {"returned", "raised"}) => ~bc_busy
    /\ (/\ browser = "DataContainerBrowser"
        /\ dc_op \in {"raised", "on_click_group", "set_path", "path_button", "home",
                      "reset_selection"})
           => ~dc_busy

\* the decorator's half of C17: try/finally releases the guard
C17_DecoratorReleases ==
    (browser = "_BusyCheck" /\ bc_op \in {"returned", "raised"}) => ~bc_busy

C19_BreadcrumbLockStep ==
    /\ path_list = <<"/">> \o current.path
    /\ Len(path_list) = cursor + 1
    /\ Len(segments) = Len(entries) - 1

\* ['/', 'B', 'B2'] after B, B1, go_back, B2: the trail was cut where the
\* ledger was
C19_Witness ==
    /\ h_op = "enter_group" /\ h_err = None /\ h_dropped = 1
    /\ path_list = <<"/", "B", "B2">>
    /\ cursor = 2

C20_WitnessContainer ==
    /\ browser = "DataContainerBrowser" /\ dc_op = "home"
    /\ dc_pre.path = <<"B", "B1">> /\ dc_current = <<>>

C21_WitnessNothingSelected ==
    /\ browser = "DataContainerBrowser" /\ dc_op = "reset_selection"
    /\ dc_pre.clicked_data = <<>> /\ dc_pre.path # <<"">>

\* ------------------------------------------------------------------------
\* Listings of the ProjectBrowser (Spec)
\* ------------------------------------------------------------------------
\* the place of name in the sequence s of distinct names
IndexOf(s, name) == CHOOSE i \in 1..Len(s) : s[i] = name

pb_shown_dirs ==
    IF pb_node_as_dirs THEN pb_dirs(pb_project) \o pb_nodes(pb_project)
    ELSE pb_dirs(pb_project)

pb_shown_files ==
    IF pb_node_as_dirs THEN pb_files(pb_project, pb_show_files)
    ELSE pb_files(pb_project, pb_show_files) \o pb_nodes(pb_project)

\* C23: in every reachable state the stored flag is the type of the current
\* position, every listed node is on exactly one of the two button lists,
\* and it is a group button exactly when the current position is a
\* filesystem project, a leaf button otherwise.
C23_NodesPartitioned ==
    browser = "ProjectBrowser" =>
        /\ pb_node_as_dirs = (pb_project.kind = "Project")
        /\ \A node \in SeqToSet(pb_nodes(pb_project)) :
              /\ (node \in SeqToSet(pb_shown_dirs)) # (node \in SeqToSet(pb_shown_files))
              /\ (node \in SeqToSet(pb_shown_dirs)) = (pb_project.kind = "Project")
        /\ pb_shown_dirs = pb_dir_buttons(pb_project)
        /\ pb_shown_files = pb_file_buttons(pb_project, pb_show_files)

\* a group click led from a project, whose nodes are group buttons, into a
\* job, whose nodes are leaf buttons
C23_Witness ==
    /\ browser = "ProjectBrowser" /\ pb_op = "on_click_group"
    /\ pb_pre.project.kind = "Project" /\ pb_project.kind = "Wrapper"
    /\ "testjob" \in SeqToSet(pb_dir_buttons(pb_pre.project))
    /\ "status" \in SeqToSet(pb_shown_files) /\ "status" \notin SeqToSet(pb_shown_dirs)

\* ------------------------------------------------------------------------
\* NumpyWidget (SpecWrapper)
\* ------------------------------------------------------------------------
\* C24: when 'Apply' is clicked on an array of rank >= 3 while the number of
\* selected plot axes is not two, 'You need to select exactly two dimensions'
\* is printed, nothing is raised and no slice is plotted.
C24_TwoDimensionsRequired ==
    (/\ widget = "NumpyWidget" /\ np_widget.op = "replot"
     /\ np_widget.ndim >= 3 /\ Len(np_widget.dim) # 2)
        => /\ np_widget.msg = "Error: You need to select exactly two dimensions."
           /\ np_widget.raised = None
           /\ np_widget.plotted = <<>>

\* 'Apply' was clicked with one, and with three, selected axes
C24_Witness ==
    /\ widget = "NumpyWidget" /\ np_widget.op = "replot"
    /\ np_widget.ndim = 4 /\ Len(np_widget.dim) = 3
    /\ np_widget.msg = "Error: You need to select exactly two dimensions."

\* the element of the array at the coordinates c is c itself; val[tuple(slc)]
\* for an index tuple with two slices is then the 2D array of the coordinates
\* it selects
array_index(slc) ==
    LET first == CHOOSE x \in 1..Len(slc) : slc[x] = slice_None
    IN [ab \in (0..(AxisLen - 1)) \X (0..(AxisLen - 1)) |->
           [x \in 1..Len(slc) |-> IF slc[x] # slice_None THEN slc[x]
                                  ELSE IF x = first THEN ab[1] ELSE ab[2]]]

\* the k-th fixed index belongs to the k-th axis, in ascending order, that is
\* not selected
fixed_index_of(w, axis) == w.idx[Cardinality({y \in 0..(axis - 1) : y \notin SeqToSet(w.dim)}) + 1]

\* C25: an array of rank n >= 3 has n - 2 fixed-index inputs; after a plot
\* with exactly two selected axes (and every fixed index inside its axis)
\* the plotted data is the array indexed with a full slice on the selected
\* axes and, on every other axis, the fixed index whose number is the rank of
\* that axis among the axes not selected.
C25_SliceByFixedIndices ==
    (widget = "NumpyWidget" /\ np_widget.ndim >= 3) =>
        /\ Len(np_widget.idx) = np_widget.ndim - 2
        /\ (/\ np_widget.op \in {"init", "replot"} /\ Len(np_widget.dim) = 2
            /\ \A k \in 1..Len(np_widget.idx) : np_widget.idx[k] < AxisLen)
              => /\ np_widget.raised = None /\ np_widget.msg = ""
                 /\ np_widget.plotted =
                       [x \in 1..np_widget.ndim |->
                           IF (x - 1) \in SeqToSet(np_widget.dim) THEN slice_None
                           ELSE fixed_index_of(np_widget, x - 1)]
                 /\ array_index(np_widget.plotted) =
                       [ab \in (0..(AxisLen - 1)) \X (0..(AxisLen - 1)) |->
                           [x \in 1..np_widget.ndim |->
                               IF x - 1 = np_widget.dim[1] THEN ab[1]
                               ELSE IF x - 1 = np_widget.dim[2] THEN ab[2]
                               ELSE fixed_index_of(np_widget, x - 1)]]

\* array[:, 1, :, 0]: axes 0 and 2 selected on a rank-4 array, fixed indices
\* 1 and 0
C25_Witness ==
    /\ widget = "NumpyWidget" /\ np_widget.op = "replot"
    /\ np_widget.ndim = 4 /\ np_widget.dim = <<0, 2>> /\ np_widget.idx = <<1, 0>>
    /\ np_widget.plotted = <<slice_None, 1, slice_None, 0>>

\* ------------------------------------------------------------------------
\* MurnaghanWidget (SpecWrapper)
\* ------------------------------------------------------------------------
\* C26: a render of the fit widget calls a fit method if and only if the
\* requested fit type differs from the type cached on the job, or the requested
\* type is polynomial and the requested order differs from the cached order;
\* a render with options equal to the cached ones calls none and leaves the
\* cached fit as it was; every render plots.
C26_RefitOnlyOnChange ==
    (widget = "MurnaghanWidget" /\ mu_widget.op = "refresh") =>
        LET differs == \/ mu_widget.options.fit_type # mu_widget.pre.fit_type
                       \/ /\ mu_widget.options.fit_type = "polynomial"
                          /\ mu_widget.options.fit_order # mu_widget.pre.fit_order
        IN /\ (mu_widget.fitted # None) <=> differs
           /\ ~differs => mu_widget.input = mu_widget.pre
           /\ differs => mu_widget.input.fit_type = mu_widget.options.fit_type
           /\ mu_widget.plotted

\* a render with a polynomial of another order refitted, and ...
C26_Witness ==
    /\ widget = "MurnaghanWidget"
    /\ mu_widget.op = "refresh"
    /\ mu_widget.options.fit_type = "polynomial"
    /\ mu_widget.pre.fit_type = "polynomial"
    /\ mu_widget.options.fit_order # mu_widget.pre.fit_order
    /\ mu_widget.fitted = "fit_polynomial"

\* ... a render with the cached options only plotted
C26_WitnessCached ==
    /\ widget = "MurnaghanWidget"
    /\ mu_widget.op = "refresh"
    /\ mu_widget.options = mu_widget.pre
    /\ mu_widget.fitted = None
    /\ mu_widget.plotted

\* ------------------------------------------------------------------------
\* AtomsWidget (SpecWrapper)
\* ------------------------------------------------------------------------
\* C27: every render of the structure widget makes a new view; the new view is
\* handed the orientation of the view before it if and only if there was a view
\* before it, that view's orientation was set (16 numbers) and reset_view is
\* not checked; otherwise the new view is left with the orientation it was
\* made with.
C27_ViewOrientationKept ==
    (widget = "AtomsWidget" /\ at_widget.op \in {"init", "refresh"}) =>
        LET kept == /\ at_widget.prev # NoObject
                    /\ at_widget.prev.orientation.len = 16
                    /\ ~at_widget.options.reset_view
        IN /\ at_widget.ngl # NoObject
           /\ at_widget.prev # NoObject => at_widget.ngl.id # at_widget.prev.id
           /\ kept => at_widget.ngl.oriented = at_widget.prev.orientation
           /\ ~kept => /\ at_widget.ngl.oriented = NoOrientation
                       /\ at_widget.ngl.orientation = NoOrientation

\* a render handed a set orientation on to the new view, and ...
C27_Witness ==
    /\ widget = "AtomsWidget"
    /\ at_widget.op = "refresh"
    /\ at_widget.prev.orientation.len = 16
    /\ ~at_widget.options.reset_view
    /\ at_widget.ngl.oriented = at_widget.prev.orientation

\* ... a render with reset_view checked did not, though one was set
C27_WitnessReset ==
    /\ widget = "AtomsWidget"
    /\ at_widget.op = "refresh"
    /\ at_widget.prev.orientation.len = 16
    /\ at_widget.options.reset_view
    /\ at_widget.ngl.oriented = NoOrientation

\* ------------------------------------------------------------------------
\* FileDataWidget (SpecWrapper)
\* ------------------------------------------------------------------------
\* C28: the data of the file is not fetched when the widget is made or when
\* the metadata is shown; it is fetched by the first 'Show data' and at most
\* once in the life of the widget, however often the two views are toggled
\* and whatever the fetch returned.
C28_FetchedAtMostOnce ==
    widget = "FileDataWidget" =>
        /\ fd_widget.fetches <= 1
        /\ ~fd_widget.data_shown => fd_widget.fetches = 0
        /\ fd_widget.data_shown => fd_widget.fetches = 1

\* the same for a fetch that returned something: the case the cache covers
C28_FetchedOnceUnlessNone ==
    (widget = "FileDataWidget" /\ fd_widget.source # "None") =>
        /\ fd_widget.fetches <= 1
        /\ ~fd_widget.data_shown => fd_widget.fetches = 0
        /\ fd_widget.data_shown => fd_widget.fetches = 1

\* the data was shown, the metadata again and the data again
C28_WitnessToggled ==
    /\ widget = "FileDataWidget"
    /\ fd_widget.source # "None"
    /\ fd_widget.op = "show_data"
    /\ fd_widget.data_ # None
    /\ fd_widget.show_data_disabled
    /\ fd_widget.fetches = 1

\* C29: when the fetched data has groups and a callback was given, the fetch
\* calls the callback if and only if the widget was made with _auto_callback,
\* and then once; without it the fetch calls nothing and the header gets a
\* 'Load job' button after 'Show metadata' and 'Show data'.
C29_CallbackOnlyIfAutomatic ==
    (/\ widget = "FileDataWidget"
     /\ fd_widget.data_ = "HasGroups"
     /\ fd_widget.callback # None) =>
        IF fd_widget.auto_callback
        THEN /\ fd_widget.fetch_calls = 1
             /\ fd_widget.header = <<"Show metadata", "Show data">>
        ELSE /\ fd_widget.fetch_calls = 0
             /\ fd_widget.header = <<"Show metadata", "Show data", "Load job">>

\* data with groups was shown twice by a widget made with _auto_callback, and ...
C29_Witness ==
    /\ widget = "FileDataWidget"
    /\ fd_widget.data_ = "HasGroups"
    /\ fd_widget.callback # None
    /\ fd_widget.auto_callback
    /\ fd_widget.op = "show_metadata"
    /\ fd_widget.fetch_calls = 1

\* ... by one made without: the header has the 'Load job' button
C29_WitnessLoadJob ==
    /\ widget = "FileDataWidget"
    /\ fd_widget.data_ = "HasGroups"
    /\ fd_widget.callback # None
    /\ ~fd_widget.auto_callback
    /\ fd_widget.op = "show_data"
    /\ Len(fd_widget.header) = 3

\* ------------------------------------------------------------------------
\* PyironWrapper (SpecWrapper)
\* ------------------------------------------------------------------------
\* C30: PyironWrapper answers for every value and by its kind alone: an
\* AtomsWrapper for a structure, a MurnaghanWrapper for a Murnaghan job, a
\* BaseWrapper for anything else, each holding the value it was given; it does
\* not raise, and it leaves the position, the history and the selection of
\* every browser as they were.
C30_WrapperByKind ==
    [][\A py_obj \in py_objs, rel_path \in {"", "sub"} :
          pw_call(py_obj, rel_path) =>
             /\ wrapper'.class = CASE py_obj.kind \in {"Atoms", "AtomsSubclass"} -> "AtomsWrapper"
                                   [] py_obj.kind = "Murnaghan" -> "MurnaghanWrapper"
                                   [] OTHER -> "BaseWrapper"
             /\ wrapper'._wrapped_object = py_obj
             /\ UNCHANGED <<hvars, pbvars, dcvars>>]_vars

\* a structure got an AtomsWrapper, and ...
C30_Witness ==
    /\ widget = "PyironWrapper"
    /\ wrapper # NoObject
    /\ wrapper._wrapped_object.kind = "Atoms"
    /\ wrapper.class = "AtomsWrapper"

\* ... None a BaseWrapper
C30_WitnessPlain ==
    /\ widget = "PyironWrapper"
    /\ wrapper # NoObject
    /\ wrapper._wrapped_object.kind = "NoneType"
    /\ wrapper.class = "BaseWrapper"

\* ------------------------------------------------------------------------
\* safe_monkey_patch (SpecPatch)
\* ------------------------------------------------------------------------
\* the class had the attribute, and it came from another function (another
\* module or name) or was of another type than what is to be patched in
mp_conflict ==
    /\ mp # NoObject
    /\ mp.op = "safe_monkey_patch"
    /\ mp.pre["any"] # Absent
    /\ \/ mp.pre["any"].type # mp.args.func_or_property.type
       \/ mp.pre["any"].module # mp.args.func_or_property.module
       \/ mp.pre["any"].name # mp.args.func_or_property.name

\* C31: safe_monkey_patch does not replace an attribute the class has that
\* comes from another function or is of another type: it warns, leaves the
\* attribute as it was and does not set or change the companion attribute.
C31_NoReplaceButWarn ==
    mp_conflict =>
        /\ mp.warned = 1
        /\ mp.raised = None
        /\ mp.attrs = mp.pre

\* what is left of C31: the attribute and the companion are kept, with a
\* warning or with an AttributeError
C31_ExistingAttributeKept ==
    mp_conflict =>
        /\ mp.attrs = mp.pre
        /\ (mp.warned = 1 /\ mp.raised = None) \/ (mp.warned = 0 /\ mp.raised = "AttributeError")

\* a function of another name was not patched in
C31_WitnessFunction ==
    /\ mp_conflict
    /\ mp.pre["any"] = function("tests", "to_be_applied")
    /\ mp.args.func_or_property = function("tests", "not_to_be_applied")
    /\ mp.warned = 1

\* a property with another getter was not patched in
C31_WitnessProperty ==
    /\ mp_conflict
    /\ mp.pre["any"].type = "property"
    /\ mp.args.func_or_property.type = "property"

\* the same for everything callable and for a companion that has the name of
\* the patched attribute: a functools.partial has no __name__, and a
\* companion of the same name has replaced the function
C32_IdempotentAnyCallable ==
    (mp # NoObject /\ mp.repeat) =>
        /\ mp.warned = 0
        /\ mp.raised = None
        /\ mp.attrs = mp.pre

C33_AssignmentRejected ==
    /\ pb_project # pb_not_browsable
    /\ dc_current # dc_not_browsable

\* what the code does: the error comes from the refresh after the assignment
C33_AssignedThenRaised ==
    /\ ~pb_listable => (pb_op = "_update_project" /\ pb_msg = "AttributeError")
    /\ ~dc_listable => (dc_op = "_update_project" /\ dc_msg = "AttributeError"
                        /\ dc_path = <<"">>)

\* the ProjectBrowser was handed an int, and so was ...
C33_Witness ==
    /\ browser = "ProjectBrowser"
    /\ pb_op = "_update_project"
    /\ pb_msg = "AttributeError"
    /\ pb_pre.project = [kind |-> "Project", path |-> <<"pr", "sub">>]

\* ... the DataContainerBrowser
C33_WitnessContainer ==
    /\ browser = "DataContainerBrowser"
    /\ dc_op = "_update_project"
    /\ dc_msg = "AttributeError"
    /\ dc_pre.path = <<"B">>


\* ------------------------------------------------------------------------
\* Assigning DataContainerBrowser.data (SpecCopy)
\* ------------------------------------------------------------------------
\* the values the data setter is called with
dc_assigned_values == {"v1", "v2"}

\* an assignment to browser.data
dc_data_assignment == \E value \in dc_assigned_values : dc_set_data(value)

\* C34: assigning browser.data while no node is selected fails with a
\* ValueError and changes nothing: container, selection and data (None) are
\* as before.
C34_AssignUnselectedValueError ==
    [][(dc_data_assignment /\ dc_data = NoObject /\ dc_clicked_data = <<>>)
          => /\ dc_op' = "ValueError"
             /\ UNCHANGED <<dc_written, dc_clicked_data, dc_data>>]_vars

\* what the setter does: the assignment fails with a RuntimeError, and
\* container, selection and data are as before
C34_AssignUnselectedRuntimeError ==
    [][(dc_data_assignment /\ dc_data = NoObject /\ dc_clicked_data = <<>>)
          => /\ dc_op' = "RuntimeError"
             /\ UNCHANGED <<dc_written, dc_clicked_data, dc_data, dc_msg>>]_vars

\* an assignment has failed while nothing was selected
C34_Witness ==
    /\ browser = "DataContainerBrowser" /\ dc_op = "RuntimeError"
    /\ dc_pre.data = NoObject /\ dc_pre.clicked_data = <<>>
    /\ dc_data = NoObject /\ dc_clicked_data = <<>>
    /\ dc_arg \in dc_assigned_values

\* C35: assigning browser.data while a node is selected stores the value at
\* that node and keeps the node selected: the clicked list still holds
\* exactly that node and data returns the new value.
C35_AssignKeepsSelection ==
    (/\ browser = "DataContainerBrowser" /\ dc_op = "set_data"
     /\ dc_pre.data # NoObject /\ dc_pre.clicked_data = <<dc_pre.data.path>>)
        => /\ dc_clicked_data = <<dc_pre.data.path>>
           /\ dc_data_property(dc_data) =
                 [kind |-> "value", key |-> dc_pre.data.path, value |-> dc_arg]

\* what the setter does: the value is stored at the node and data returns
\* it, and the clicked list is emptied
C35_AssignStoresAndClearsClicked ==
    (/\ browser = "DataContainerBrowser" /\ dc_op = "set_data"
     /\ dc_pre.data # NoObject /\ dc_pre.clicked_data = <<dc_pre.data.path>>)
        => /\ dc_clicked_data = <<>>
           /\ dc_data = dc_pre.data
           /\ dc_data_property(dc_data) =
                 [kind |-> "value", key |-> dc_pre.data.path, value |-> dc_arg]

\* after an assignment, a click on the node that was assigned to selects it
\* instead of deselecting it
C35_ClickAfterAssignSelects ==
    [][\A filename \in {"A", "a"} :
          (/\ dc_on_click_file(filename) /\ dc_op = "set_data"
           /\ dc_op' = "on_click_file"
           /\ dc_data # NoObject /\ dc_data.path = dc_join(dc_path, filename))
              => dc_data' = dc_data /\ dc_clicked_data' = <<dc_data.path>>]_vars

\* a value has been assigned to the selected node
C35_Witness ==
    /\ browser = "DataContainerBrowser" /\ dc_op = "set_data"
    /\ dc_pre.data # NoObject /\ dc_pre.clicked_data = <<dc_pre.data.path>>
    /\ dc_arg = "v1"

\* ------------------------------------------------------------------------
\* _gen_pathbox_path_list (SpecPathList)
\* ------------------------------------------------------------------------
\* the path without a trailing slash
pl_without_trailing_slash(path) ==
    IF ends_with_slash(path) /\ Len(path) > 2 THEN strip_last_slash(path) ELSE path

\* a is the parent directory of b: b is a followed by one more name
pl_parent_of(a, b) ==
    \/ a = <<"", "">> /\ Len(b) = 2 /\ b[1] = "" /\ b[2] # ""
    \/ /\ a # <<"", "">> /\ Len(b) = Len(a) + 1
       /\ SubSeq(b, 1, Len(a)) = a /\ b[Len(b)] # ""

\* the list is the chain of the ancestors of path, from the root '/' on
pl_ancestor_chain(list, path) ==
    /\ Len(list) >= 1
    /\ list[1] = <<"", "">>
    /\ \A i \in 1 .. Len(list) - 1 : pl_parent_of(list[i], list[i + 1])
    /\ list[Len(list)] = pl_without_trailing_slash(path)

\* the paths as the program writes them: one slash between names, with or
\* without a slash at the end
pl_plain(path) ==
    \/ path = <<"", "">>
    \/ \A i \in 2 .. Len(path) : path[i] = "" => i = Len(path)

\* C36: _gen_pathbox_path_list returns the chain of ancestors root first:
\* the first element is '/', each element is the parent of the next and the
\* last is the current path without a trailing slash, also at the root.
C36_AncestorChain ==
    (pl # NoObject /\ pl.pc = "done" /\ pl_plain(pl.path))
        => pl_ancestor_chain(pl.path_list, pl.path)

\* below the root the list is the chain of ancestors
C36_AncestorChainBelowRoot ==
    (pl # NoObject /\ pl.pc = "done" /\ pl_plain(pl.path) /\ pl.path # <<"", "">>)
        => pl_ancestor_chain(pl.path_list, pl.path)

\* at the root the list holds the empty string only
C36_RootListsEmptyString ==
    (pl # NoObject /\ pl.pc = "done" /\ pl.path = <<"", "">>)
        => pl.path_list = <<<<"">>>>

\* every call returns
C36_Terminates ==
    (pl # NoObject /\ pl.pc = "while") ~> (pl # NoObject /\ pl.pc = "done")

\* the list for '/some/path/' has been returned
C36_Witness ==
    /\ pl # NoObject /\ pl.pc = "done" /\ pl.cls = "ProjectBrowser"
    /\ pl.path = <<"", "some", "path", "">>
    /\ pl.path_list = <<<<"", "">>, <<"", "some">>, <<"", "some", "path">>>>

\* the list at the root has been returned by both browsers
C36_WitnessRoot ==
    /\ pl # NoObject /\ pl.pc = "done" /\ pl.cls = "DataContainerBrowser"
    /\ pl.path = <<"", "">>

\* ------------------------------------------------------------------------
\* The 'Load job' button of the FileDataWidget (SpecWrapper)
\* ------------------------------------------------------------------------
\* the data view has put 'Load job' into the header: the data has groups and
\* the callback is not called automatically
fd_load_job_surfaced ==
    /\ widget = "FileDataWidget"
    /\ "Load job" \in SeqToSet(fd_widget.header)

\* C37: once 'Load job' is in the header, a click on it calls the callback
\* with the data already loaded and fetches nothing; without a callable
\* callback the click only disables the button.
C37_LoadJobClick ==
    [][(fd_click_load_job /\ fd_load_job_surfaced)
          => IF fd_widget.callback # None
             THEN /\ fd_widget'.load_calls = fd_widget.load_calls + 1
                  /\ fd_widget'.load_arg = fd_widget.data_
                  /\ fd_widget'.fetches = fd_widget.fetches
             ELSE /\ fd_widget'.load_disabled
                  /\ fd_widget'.load_calls = fd_widget.load_calls]_vars

\* what the click does: no handler is on the button, nothing but the record
\* of the event changes
C37_LoadJobClickDoesNothing ==
    [][(fd_click_load_job /\ fd_load_job_surfaced)
          => fd_widget' = [fd_widget EXCEPT !.op = "click_load_job"]]_vars

\* the method itself, called with the button: the callback gets the loaded
\* data and nothing is fetched, or the button is disabled
C37_HandlerCalled ==
    [][(fd_load_and_callback("Load job") /\ fd_load_job_surfaced)
          => IF fd_widget.callback # None
             THEN /\ fd_widget'.load_calls = fd_widget.load_calls + 1
                  /\ fd_widget'.load_arg = fd_widget.data_
                  /\ fd_widget'.load_arg = "HasGroups"
                  /\ fd_widget'.fetches = fd_widget.fetches
                  /\ fd_widget'.load_disabled = fd_widget.load_disabled
             ELSE /\ fd_widget'.load_disabled
                  /\ fd_widget'.load_calls = fd_widget.load_calls
                  /\ fd_widget'.fetches = fd_widget.fetches]_vars

\* 'Load job' has been clicked on a widget with a callback
C37_Witness ==
    /\ fd_load_job_surfaced /\ fd_widget.op = "click_load_job"
    /\ fd_widget.callback # None /\ fd_widget.data_ = "HasGroups"
    /\ fd_widget.load_calls = 0

\* the method has called the callback with the loaded data
C37_WitnessHandler ==
    /\ fd_load_job_surfaced /\ fd_widget.op = "_load_and_callback"
    /\ fd_widget.load_calls = 1 /\ fd_widget.load_arg = "HasGroups"
    /\ fd_widget.fetches = 1

\* ------------------------------------------------------------------------
\* Selection and data of the ProjectBrowser (Spec)
\* ------------------------------------------------------------------------
\* the data is the FileData of the one clicked file, loaded at the current
\* position
pb_data_of_clicked_file ==
    /\ Len(pb_clickedFiles) = 1
    /\ pb_data.path = pb_clickedFiles[1]
    /\ pb_data.path = Append(pb_project.path, pb_data.file)
    /\ pb_data.data = pb_fetch(pb_project, pb_data.file)

\* C38: whenever the internal data of the ProjectBrowser is not None, exactly
\* one file is marked as clicked and the data was loaded from that file at
\* the current position.
C38_SelectionDataConsistent ==
    (browser = "ProjectBrowser" /\ pb_data # NoObject) => pb_data_of_clicked_file

\* right after a click that marked a file whose load gave something, the
\* data is that of the marked file
C38_ConsistentAfterLoadedClick ==
    (/\ browser = "ProjectBrowser" /\ pb_op = "on_click_file"
     /\ pb_fetch(pb_project, pb_arg) # NoObject
     /\ Append(pb_project.path, pb_arg) \notin SeqToSet(pb_pre.clickedFiles))
        => pb_data # NoObject /\ pb_data_of_clicked_file

\* a file was marked by a click that loaded nothing while the data of
\* another file stays exposed
C38_WitnessStaleData ==
    /\ browser = "ProjectBrowser" /\ pb_op = "on_click_file"
    /\ pb_fetch(pb_project, pb_arg) = NoObject
    /\ pb_clickedFiles = <<Append(pb_project.path, pb_arg)>>
    /\ pb_data # NoObject /\ pb_data.file # pb_arg

\* ------------------------------------------------------------------------
\* Path and container of the DataContainerBrowser (Spec)
\* ------------------------------------------------------------------------
\* self._data_container[self._path], the root container for the empty path
dc_container_at_path ==
    IF dc_path = <<"">> THEN <<>> ELSE dc_getitem(<<>>, dc_path).key

\* the events that navigate by a path string or by the home button
dc_path_events == {"on_click_group", "set_path", "path_button", "home", "raised"}

\* C39: after group clicks, Set Path, path-button and home clicks, successful
\* or failed, the current container of the DataContainerBrowser is the root
\* container indexed by the current path (the root for the empty path), and
\* a failed lookup changes neither the path nor the container.
C39_PathAndContainerInLockStep ==
    browser = "DataContainerBrowser" =>
        /\ dc_current = dc_container_at_path
        /\ dc_kind(dc_current) = "group"
        /\ (dc_op \in dc_path_events /\ (dc_msg = "No valid path" \/ dc_op = "raised"))
              => dc_path = dc_pre.path

\* a lookup has failed inside a group
C39_Witness ==
    /\ browser = "DataContainerBrowser" /\ dc_op = "set_path"
    /\ dc_msg = "No valid path" /\ dc_path = <<"B">> /\ dc_pre.path = <<"B">>
    /\ dc_current = <<"B">>

\* the browser has gone from a group into one of its groups
C39_WitnessMoved ==
    /\ browser = "DataContainerBrowser" /\ dc_op \in dc_path_events
    /\ dc_msg = "" /\ dc_path = <<"B", "B1">> /\ dc_pre.path = <<"B">>

\* ------------------------------------------------------------------------
\* Releasing the guard when widgets were closed (SpecClose)
\* ------------------------------------------------------------------------
\* the last call asked the guard to be released
bc_release_asked == bc_eff \in {"release", "rerelease", "KeyError"}

\* C40: releasing the guard always ends with busy == False, also when
\* buttons saved at the acquisition were closed or left the registry and when
\* buttons were made while the guard was held.
C40_ReleaseEndsNotBusy ==
    (browser = "_BusyCheck" /\ bc_release_asked) => ~bc_busy

\* the release ends not busy unless a saved button has left the registry;
\* then KeyError is raised
C40_ReleasedUnlessButtonGone ==
    /\ (browser = "_BusyCheck" /\ bc_eff \in {"release", "rerelease"}) => ~bc_busy
    /\ (browser = "_BusyCheck" /\ bc_eff = "KeyError")
          => missing_widgets(bc_widgets, bc_widget_state) # {}
    /\ (browser = "_BusyCheck" /\ bc_release_asked
        /\ missing_widgets(bc_widgets, bc_widget_state) = {}) => ~bc_busy

\* once a saved button is gone while the guard is held it is never released
C40_StuckOnceButtonGone ==
    [][(bc_busy /\ missing_widgets(bc_widgets, bc_widget_state) # {}) => bc_busy']_vars

\* a release has failed with the guard held: a saved button is gone
C40_Witness ==
    /\ browser = "_BusyCheck" /\ bc_eff = "KeyError" /\ bc_busy
    /\ bc_op = "raised"

\* the guard was released although a button was made while it was held
C40_WitnessNewButton ==
    /\ browser = "_BusyCheck" /\ bc_eff = "release" /\ ~bc_busy
    /\ \E k \in DOMAIN bc_widgets : bc_widgets[k].button /\ k \notin DOMAIN bc_widget_state

====
